---- MODULE Spec2Model ----
(***************************************************************************)
(* State-machine model of the vibe-wfm shift scheduler (App component      *)
(* with IndexedDB persistence).  Texts (time fields, date keys, titles)    *)
(* are sequences of one-character strings, JavaScript numbers kept in the  *)
(* shift records are integers or NaN, and the intermediate values fed to   *)
(* snapToStep are exact rationals <<numerator, denominator>>.              *)
(***************************************************************************)
EXTENDS Integers, Sequences, FiniteSets, TLC

----------------------------------------------------------------------------
\* Program constants

MINUTES_IN_DAY == 24 * 60
SNAP_MINUTES == 15
MIN_SHIFT_MINUTES == 30
HOUR_WIDTH == 72
HOURS_LENGTH == 24
DATE_CELL_WIDTH == 160
DATE_CELL_PADDING == 6
EMPLOYEE_COLUMN_WIDTH_DESKTOP == 180
HEADER_HEIGHT == 54
ROW_HEIGHT == 76
ROW_OVERSCAN == 4
COLUMN_OVERSCAN == 2
MAX_MODAL_MINUTES == MINUTES_IN_DAY - SNAP_MINUTES
DEFAULT_SHIFT_START == 9 * 60

----------------------------------------------------------------------------
\* JavaScript values

\* null / an absent optional value, and a present one
NULL == << >>
Some(x) == <<x>>

\* The IEEE NaN of a number kept in a shift record (every other stored
\* number of the model is an integer far from this value).
NaN == -1000000000

\* Rationals <<n, d>> with d > 0; d = 0 is NaN, d < 0 is `undefined`
\* (a destructured array element that does not exist).
NaNQ == <<0, 0>>
UNDEFINED == <<0, -1>>
ToQ(x) == IF x = NaN THEN NaNQ ELSE <<x, 1>>

\* Number.isNaN: true of NaN only, false of undefined
NumberIsNaN(q) == q[2] = 0

\* q < k, q > k for a rational q and an integer k (false when q is NaN/undefined)
QLt(q, k) == q[2] > 0 /\ q[1] < k * q[2]
QGt(q, k) == q[2] > 0 /\ q[1] > k * q[2]
\* q === k
QEqInt(q, k) == q[2] > 0 /\ q[1] = k * q[2]
\* h * 60 + m
QMulAdd(h, k, m) ==
    IF h[2] <= 0 \/ m[2] <= 0 THEN NaNQ
    ELSE <<h[1] * k * m[2] + m[1] * h[2], h[2] * m[2]>>
\* truncation toward zero (ToIntegerOrInfinity)
QTrunc(q) == IF q[1] >= 0 THEN q[1] \div q[2] ELSE -((-q[1]) \div q[2])

\* +, -, <, <= on stored numbers (NaN propagates, comparisons with NaN are false)
Plus(a, b) == IF a = NaN \/ b = NaN THEN NaN ELSE a + b
Minus(a, b) == IF a = NaN \/ b = NaN THEN NaN ELSE a - b
Lt(a, b) == a # NaN /\ b # NaN /\ a < b
Le(a, b) == a # NaN /\ b # NaN /\ a <= b
MathMax(a, b) == IF a = NaN \/ b = NaN THEN NaN ELSE IF a >= b THEN a ELSE b
MathMin(a, b) == IF a = NaN \/ b = NaN THEN NaN ELSE IF a <= b THEN a ELSE b
MathFloorDiv(a, k) == IF a = NaN THEN NaN ELSE a \div k
Rem(a, k) == IF a = NaN THEN NaN ELSE a % k

\* Math.round(n / d) for d > 0: the nearest integer, a tie goes up
MathRound(n, d) == (2 * n + d) \div (2 * d)

----------------------------------------------------------------------------
\* Texts

Digits == <<"0", "1", "2", "3", "4", "5", "6", "7", "8", "9">>
IsDigit(c) == \E i \in 1..10 : Digits[i] = c
DigitValue(c) == (CHOOSE i \in 1..10 : Digits[i] = c) - 1

RECURSIVE DigitsValue(_)
DigitsValue(s) ==
    IF s = << >> THEN 0
    ELSE 10 * DigitsValue(SubSeq(s, 1, Len(s) - 1)) + DigitValue(s[Len(s)])

RECURSIVE Pow10(_)
Pow10(k) == IF k = 0 THEN 1 ELSE 10 * Pow10(k - 1)

\* String.prototype.split(sep) for a one-character separator
RECURSIVE Split(_, _)
Split(s, sep) ==
    IF \A i \in 1..Len(s) : s[i] # sep THEN <<s>>
    ELSE LET k == CHOOSE i \in 1..Len(s) :
                    s[i] = sep /\ \A j \in 1..(i - 1) : s[j] # sep
         IN  <<SubSeq(s, 1, k - 1)>> \o Split(SubSeq(s, k + 1, Len(s)), sep)

\* String.prototype.trim
trim(s) ==
    LET idx == {i \in 1..Len(s) : s[i] # " "}
        lo == CHOOSE i \in idx : \A j \in idx : i <= j
        hi == CHOOSE i \in idx : \A j \in idx : i >= j
    IN  IF idx = {} THEN << >> ELSE SubSeq(s, lo, hi)

\* Number(text) for texts of digits, one sign, one decimal point, blanks and
\* letters: the empty text is 0, a malformed one is NaN
Unsigned(t) == IF Len(t) > 0 /\ t[1] \in {"-", "+"} THEN Tail(t) ELSE t
Sign(t) == IF Len(t) > 0 /\ t[1] = "-" THEN -1 ELSE 1
\* position of the first decimal point of u, 0 when it has none
DotAt(u) ==
    IF \A i \in 1..Len(u) : u[i] # "." THEN 0
    ELSE CHOOSE i \in 1..Len(u) : u[i] = "." /\ \A j \in 1..(i - 1) : u[j] # "."
\* the value of the unsigned literal u whose first decimal point is at k
Decimal(sign, u, k) ==
    IF u = << >> THEN NaNQ
    ELSE IF \E i \in 1..Len(u) : ~IsDigit(u[i]) /\ i # k THEN NaNQ
    ELSE IF k = 0 THEN <<sign * DigitsValue(u), 1>>
    ELSE IF Len(u) = 1 THEN NaNQ
    ELSE <<sign * (DigitsValue(SubSeq(u, 1, k - 1)) * Pow10(Len(u) - k)
                   + DigitsValue(SubSeq(u, k + 1, Len(u)))),
           Pow10(Len(u) - k)>>
NumberOfTrimmed(t) ==
    IF t = << >> THEN <<0, 1>> ELSE Decimal(Sign(t), Unsigned(t), DotAt(Unsigned(t)))
Number(s) == NumberOfTrimmed(trim(s))

RECURSIVE NatToText(_)
NatToText(n) ==
    IF n < 10 THEN <<Digits[n + 1]>>
    ELSE NatToText(n \div 10) \o <<Digits[(n % 10) + 1]>>

\* String(x) of a stored number
String(x) ==
    IF x = NaN THEN <<"N", "a", "N">>
    ELSE IF x < 0 THEN <<"-">> \o NatToText(-x)
    ELSE NatToText(x)

\* String.prototype.padStart
padStart(s, n, c) ==
    IF Len(s) >= n THEN s ELSE [i \in 1..(n - Len(s)) |-> c] \o s

----------------------------------------------------------------------------
\* Time utilities

clamp(value, min, max) == MathMin(MathMax(value, min), max)

\* Faulty variant: the value is rounded down to the grid
snapToStepDown(value, step) ==
    IF value[2] <= 0 THEN NaN
    ELSE (value[1] \div (value[2] * step)) * step

\* value is a rational; the result is a stored number
snapToStep(value, step) ==
    IF value[2] <= 0 THEN NaN
    ELSE MathRound(value[1], value[2] * step) * step

\* `${h}:${m}` of the normalized minutes
HoursAndMinutes(normalized) ==
    padStart(String(MathFloorDiv(normalized, 60)), 2, "0") \o <<":">>
        \o padStart(String(Rem(normalized, 60)), 2, "0")
formatTime(minutes) == HoursAndMinutes(clamp(minutes, 0, MINUTES_IN_DAY))

\* the checks and the result of parseTime on the parsed [h, m]
MinutesOf(h, m) ==
    IF NumberIsNaN(h) \/ NumberIsNaN(m) THEN NULL
    ELSE IF QLt(h, 0) \/ QGt(h, 23) \/ QLt(m, 0) \/ QGt(m, 59) THEN NULL
    ELSE QMulAdd(h, 60, m)
\* value.split(':').map(Number), destructured as [h, m]
TimeOfParts(parts) ==
    MinutesOf(Number(parts[1]), IF Len(parts) >= 2 THEN Number(parts[2]) ELSE UNDEFINED)
\* null (NULL) or the number h * 60 + m, as a rational
parseTime(value) == TimeOfParts(Split(value, ":"))

----------------------------------------------------------------------------
\* Date utilities.  A Date is <<year, monthIndex (0..11), day>>.

InvalidDate == <<NaN, NaN, NaN>>

\* days since 1970-01-01 of the civil date y-m-d (m in 1..12), and back
DaysOfEra(era, yoe, doy) ==
    era * 146097 + (yoe * 365 + yoe \div 4 - yoe \div 100 + doy) - 719468
DaysOfYear(yy, m, d) ==
    DaysOfEra(yy \div 400, yy % 400, (153 * ((m + 9) % 12) + 2) \div 5 + d - 1)
DaysFromCivil(y, m, d) == DaysOfYear(IF m <= 2 THEN y - 1 ELSE y, m, d)

CivilOfMonth(era, yoe, d, m) ==
    <<yoe + era * 400 + (IF m <= 2 THEN 1 ELSE 0), m - 1, d>>
CivilOfMp(era, yoe, doy, mp) ==
    CivilOfMonth(era, yoe, doy - (153 * mp + 2) \div 5 + 1,
                 IF mp < 10 THEN mp + 3 ELSE mp - 9)
CivilOfDoy(era, yoe, doy) == CivilOfMp(era, yoe, doy, (5 * doy + 2) \div 153)
CivilOfYoe(era, doe, yoe) ==
    CivilOfDoy(era, yoe, doe - (365 * yoe + yoe \div 4 - yoe \div 100))
CivilOfDoe(era, doe) ==
    CivilOfYoe(era, doe,
               (doe - doe \div 1460 + doe \div 36524 - doe \div 146096) \div 365)
CivilFromDays(z) == CivilOfDoe((z + 719468) \div 146097, (z + 719468) % 146097)

\* new Date(year, monthIndex, day) on rationals: NaN/undefined give an
\* Invalid Date, fractions are truncated, years 0..99 mean 1900..1999, and
\* a month or day out of range rolls over.
DateOfFields(y, mi, d) ==
    CivilFromDays(DaysFromCivil(y + mi \div 12, (mi % 12) + 1, 1) + d - 1)
FullYear(y0) == IF y0 >= 0 /\ y0 <= 99 THEN 1900 + y0 ELSE y0
NewDate(yq, mq, dq) ==
    IF yq[2] <= 0 \/ mq[2] <= 0 \/ dq[2] <= 0 THEN InvalidDate
    ELSE DateOfFields(FullYear(QTrunc(yq)), QTrunc(mq), QTrunc(dq))

dateToKey(date) ==
    String(date[1]) \o <<"-">> \o padStart(String(Plus(date[2], 1)), 2, "0")
        \o <<"-">> \o padStart(String(date[3]), 2, "0")

\* m - 1 on a rational
MinusOne(m) == IF m[2] <= 0 THEN NaNQ ELSE <<m[1] - m[2], m[2]>>
\* Faulty variant: a date that rolled over is returned as it is
CheckedDateRolledOver(y, mMinus1, d, date) ==
    IF date = InvalidDate THEN NULL ELSE date

\* the round-trip check of parseDateKey on the constructed date
CheckedDate(y, mMinus1, d, date) ==
    IF date = InvalidDate THEN NULL
    ELSE IF ~QEqInt(y, date[1]) \/ ~QEqInt(mMinus1, date[2]) \/ ~QEqInt(d, date[3])
    THEN NULL
    ELSE date
DateOfYMD(y, m, d) ==
    IF NumberIsNaN(y) \/ NumberIsNaN(m) \/ NumberIsNaN(d) THEN NULL
    ELSE CheckedDate(y, MinusOne(m), d, NewDate(y, MinusOne(m), d))
\* value.split('-').map(Number), destructured as [y, m, d]
DateOfParts(parts) ==
    DateOfYMD(Number(parts[1]),
              IF Len(parts) >= 2 THEN Number(parts[2]) ELSE UNDEFINED,
              IF Len(parts) >= 3 THEN Number(parts[3]) ELSE UNDEFINED)
\* null (NULL) or the Date
parseDateKey(value) == DateOfParts(Split(value, "-"))

addDays(date, amount) ==
    CivilFromDays(DaysFromCivil(date[1], date[2] + 1, date[3]) + amount)

----------------------------------------------------------------------------
\* Bounds of the model

\* user gestures (handler invocations) explored from the initial state
MaxGestures == 3
\* saves that may be in flight at once
MaxInflight == 2
\* shifts in a collection whose cells are looked up
MaxCollection == 3
\* largest minute value, of either sign, that is snapped
MaxSnapValue == 60
\* entries of a stored array that is loaded
MaxStored == 3

----------------------------------------------------------------------------
\* Data

\* `today` of the run, its key and the next day's
Today == <<2024, 1, 29>>
todayKey == dateToKey(Today)
tomorrowKey == dateToKey(addDays(Today, 1))

LanguageIds == {"ru", "en"}

translations(languageId) ==
    IF languageId = "en"
    THEN [invalidDate |-> "Enter a valid date",
          invalidTime |-> "Enter a valid time in HH:MM format",
          endAfterStart |-> "Shift end must be after start",
          minShiftDuration |-> "Minimum shift duration",
          defaultShiftTitle |-> <<"S", "h", "i", "f", "t">>,
          newShiftTitle |-> <<"N", "e", "w", " ", "s", "h", "i", "f", "t">>]
    ELSE [invalidDate |-> "Ukazhite korrektnuyu datu",
          invalidTime |-> "Vvedite korrektnoe vremya v formate HH:MM",
          endAfterStart |-> "Konets smeny dolzhen byt pozzhe nachala",
          minShiftDuration |-> "Minimalnaya dlitelnost smeny",
          defaultShiftTitle |-> <<"S", "m", "e", "n", "a">>,
          newShiftTitle |-> <<"N", "o", "v", "a", "y", "a">>]

\* ids 1..3 stand for the three crypto.randomUUID() values of the run
initialShifts ==
    << [id |-> 1, employeeId |-> "e1", dateKey |-> todayKey,
        title |-> <<"U", "t", "r", "o">>, start |-> 9 * 60, end |-> 13 * 60],
       [id |-> 2, employeeId |-> "e2", dateKey |-> todayKey,
        title |-> <<"D", "e", "n">>, start |-> 12 * 60, end |-> 18 * 60],
       [id |-> 3, employeeId |-> "e3", dateKey |-> tomorrowKey,
        title |-> <<"V", "e", "c", "h", "e", "r">>, start |-> 15 * 60, end |-> 21 * 60] >>

\* The value kept under the `shifts` key of the object store: isArray says
\* whether Array.isArray holds of it, items are its elements, each with the
\* typeof of its six fields.
ShiftTypes ==
    [id |-> "string", employeeId |-> "string", dateKey |-> "string",
     title |-> "string", start |-> "number", end |-> "number"]
ToStored(shift) == [isObject |-> TRUE, types |-> ShiftTypes, value |-> shift]

RECURSIVE MapSeq(_, _)
MapSeq(Op(_), s) == IF s = << >> THEN << >> ELSE <<Op(Head(s))>> \o MapSeq(Op, Tail(s))

RECURSIVE FilterSeq(_, _)
FilterSeq(Test(_), s) ==
    IF s = << >> THEN << >>
    ELSE (IF Test(Head(s)) THEN <<Head(s)>> ELSE << >>) \o FilterSeq(Test, Tail(s))

\* Contents the store can hold when the page opens: nothing, or a
\* collection written earlier whose times are in range but not on the
\* 15-minute grid (loading validates the field types only).
StoredShift ==
    [id |-> 101, employeeId |-> "e1", dateKey |-> todayKey,
     title |-> <<"O", "l", "d">>, start |-> 100, end |-> 200]
InitialStores ==
    { [isArray |-> FALSE, items |-> << >>],
      [isArray |-> TRUE, items |-> <<ToStored(StoredShift)>>] }

\* Faulty variant: the types of start and end are not looked at
isValidShiftTextOnly(item) ==
    /\ item.isObject
    /\ \A f \in {"id", "employeeId", "dateKey", "title"} : item.types[f] = "string"

isValidShift(item) ==
    /\ item.isObject
    /\ \A f \in {"id", "employeeId", "dateKey", "title"} : item.types[f] = "string"
    /\ \A f \in {"start", "end"} : item.types[f] = "number"

\* null (NULL) or Some(the well-formed elements, as shifts)
loadShiftsFromIndexedDb(data) ==
    IF ~data.isArray THEN NULL
    ELSE LET Value(item) == item.value
         IN  Some(MapSeq(Value, FilterSeq(isValidShift, data.items)))

----------------------------------------------------------------------------
\* Inputs of the gestures

\* cells a create is opened on: (employeeId, dateKey, startMinutes)
CreateInputs == {<<"e1", todayKey, DEFAULT_SHIFT_START>>, <<"e2", tomorrowKey, 23 * 60>>}
\* texts the draft's fields are changed to (a field takes any text where the
\* date and time controls fall back to text inputs; an emptied control gives
\* the empty text everywhere)
TitleInputs == {<<" ">>, <<" ", "N", " ">>}
EmployeeInputs == {"e2"}
DateInputs == {<< >>, <<"2", "0", "2", "4", "-", "0", "2", "-", "3", "0">>}
StartTimeInputs ==
    { << >>,
      <<"0", "9", ":", "0", "7", ".", "5">>,
      <<"2", "5", ":", "0", "0">> }
EndTimeInputs ==
    { <<"0", "9", ":", "1", "5">>,
      <<"2", "3", ":", "5", "3">> }
\* drop targets: (employeeId, dateKey), and pointer offsets on a day timeline
DropCells == {<<"e2", tomorrowKey>>}
DropOffsets == {-5, 100, 1700}
TimelineWidth == HOURS_LENGTH * HOUR_WIDTH
\* pointer-down position of a resize and the positions it is moved to
OriginX == 500
ClientXs == {OriginX - 4000, OriginX + 36, OriginX + 4000}
\* pixels per hour of a handle: HOUR_WIDTH in the day view, dateTimelineHourWidth
\* = (DATE_CELL_WIDTH - 2 * DATE_CELL_PADDING) / 24 in a date cell
dateTimelineHourWidth == <<DATE_CELL_WIDTH - DATE_CELL_PADDING * 2, 24>>
PixelsPerHour == {<<HOUR_WIDTH, 1>>, dateTimelineHourWidth}
Edges == {"left", "right"}

\* parseTime and parseDateKey tabulated once for the texts a draft field
\* usually holds (the inputs above, the formatted grid times, the dates of
\* the run); any other text is parsed directly.
KnownTimeTexts ==
    StartTimeInputs \cup EndTimeInputs
        \cup {formatTime(SNAP_MINUTES * k) : k \in 0..(MINUTES_IN_DAY \div SNAP_MINUTES)}
ParsedTimes == [value \in KnownTimeTexts |-> parseTime(value)]
parseTimeOf(value) ==
    IF value \in KnownTimeTexts THEN ParsedTimes[value] ELSE parseTime(value)
\* what the date picker is changed to: today, tomorrow, the Sunday of the
\* week, and a day that does not exist
PickerInputs ==
    {todayKey, tomorrowKey, dateToKey(addDays(Today, 3)),
     <<"2", "0", "2", "4", "-", "0", "2", "-", "3", "0">>}
KnownDateKeys == DateInputs \cup PickerInputs
ParsedDateKeys == [value \in KnownDateKeys |-> parseDateKey(value)]
parseDateKeyOf(value) ==
    IF value \in KnownDateKeys THEN ParsedDateKeys[value] ELSE parseDateKey(value)

----------------------------------------------------------------------------
\* Layout of the grid, and the effects that keep the date picker, the view
\* mode, the highlight and the horizontal scroll together.  Pixel values are
\* whole numbers: the viewport widths of the model make the quotients of
\* the layout whole.

MOBILE_BREAKPOINT == 900
EMPLOYEE_COLUMN_WIDTH_MOBILE == 130
ViewModes == {"day", "week", "month"}

\* Date.prototype.getDay: 0 is Sunday
getDay(date) == (DaysFromCivil(date[1], date[2] + 1, date[3]) + 4) % 7
getWeekDates(date) ==
    [i \in 1..7 |-> addDays(date, (i - 1) - ((getDay(date) + 6) % 7))]
\* new Date(y, m + 1, 0).getDate()
daysInMonth(date) == DateOfFields(date[1], date[2] + 1, 0)[3]
getMonthDates(date) ==
    [i \in 1..daysInMonth(date) |-> DateOfFields(date[1], date[2], i)]
visibleDates(viewMode, selectedDate) ==
    IF viewMode = "day" THEN <<selectedDate>>
    ELSE IF viewMode = "week" THEN getWeekDates(selectedDate)
    ELSE getMonthDates(selectedDate)
\* HOURS.length or visibleDates.length, the length its Array.from is given
columnCount(viewMode, selectedDate) ==
    IF viewMode = "day" THEN HOURS_LENGTH
    ELSE IF viewMode = "week" THEN 7
    ELSE daysInMonth(selectedDate)

employeeColumnWidth(width) ==
    IF width > 0 /\ width <= MOBILE_BREAKPOINT
    THEN EMPLOYEE_COLUMN_WIDTH_MOBILE
    ELSE EMPLOYEE_COLUMN_WIDTH_DESKTOP
columnWidth(viewMode, isMobile, width) ==
    IF viewMode = "day" THEN HOUR_WIDTH
    ELSE IF viewMode = "week" /\ ~isMobile /\ width > 0
    THEN MathMax((width - employeeColumnWidth(width)) \div 7, 1)
    ELSE DATE_CELL_WIDTH

\* what one render of the component computes from its state (width is
\* virtualViewport.width); the dependency lists of the effects compare the
\* fields of two renders, and visibleDates is computed from viewMode and
\* selectedDate where it is read
Layout(viewMode, isMobile, width, selectedDate) ==
    [viewMode |-> viewMode,
     isMobile |-> isMobile,
     width |-> width,
     selectedDate |-> selectedDate,
     selectedDateKey |-> dateToKey(selectedDate),
     columnWidth |-> columnWidth(viewMode, isMobile, width),
     employeeColumnWidth |-> employeeColumnWidth(width),
     totalGridWidth |->
        employeeColumnWidth(width)
        + columnCount(viewMode, selectedDate) * columnWidth(viewMode, isMobile, width)]

\* grid viewport widths of the model
ViewportWidths == {1160, 830}

\* visibleDates.findIndex((date) => dateToKey(date) === targetDateKey)
findIndex(dates, targetDateKey) ==
    IF \A i \in 1..Len(dates) : dateToKey(dates[i]) # targetDateKey THEN -1
    ELSE (CHOOSE i \in 1..Len(dates) :
            /\ dateToKey(dates[i]) = targetDateKey
            /\ \A j \in 1..(i - 1) : dateToKey(dates[j]) # targetDateKey) - 1

\* The effects work on the part of the state they read and write:
\*   ref         datepickerTargetDateKeyRef.current
\*   scrollLeft  viewport.scrollLeft
\*   scrollTo    NULL or Some(left) of the smooth scroll on its way
\*   scrollCalls calls of viewport.scrollTo so far
\*   width       virtualViewport.width as last set
\* and the grid viewport exists exactly when the layout is not mobile.

\* the effect that keeps the scroll offset inside the canvas
ClampScrollEffect(dom, layout, clientWidth) ==
    IF layout.isMobile THEN dom
    ELSE [dom EXCEPT
            !.scrollLeft =
                MathMin(@, MathMax(layout.totalGridWidth - clientWidth, 0)),
            !.width = clientWidth]

\* Faulty variant: the centred offset is requested as it is
ScrollToColumnUnclamped(dom, layout, clientWidth, targetColumnLeft, timelineViewportWidth) ==
    IF /\ targetColumnLeft >= dom.scrollLeft
       /\ targetColumnLeft + layout.columnWidth
            <= dom.scrollLeft + timelineViewportWidth
    THEN [dom EXCEPT !.ref = NULL]
    ELSE [dom EXCEPT
            !.ref = NULL,
            !.scrollCalls = @ + 1,
            !.scrollTo =
                Some(targetColumnLeft
                     - MathMax((timelineViewportWidth - layout.columnWidth) \div 2, 0))]

\* Faulty variant: the half of the free span is added to the column's left
\* edge, not taken from it
ScrollToColumnPastTarget(dom, layout, clientWidth, targetColumnLeft, timelineViewportWidth) ==
    IF /\ targetColumnLeft >= dom.scrollLeft
       /\ targetColumnLeft + layout.columnWidth
            <= dom.scrollLeft + timelineViewportWidth
    THEN [dom EXCEPT !.ref = NULL]
    ELSE [dom EXCEPT
            !.ref = NULL,
            !.scrollCalls = @ + 1,
            !.scrollTo =
                Some(clamp(targetColumnLeft
                            + MathMax((timelineViewportWidth - layout.columnWidth)
                                        \div 2, 0),
                           0,
                           MathMax(layout.totalGridWidth - clientWidth, 0)))]

\* the request of the date-scroll effect for the column at targetColumnLeft
ScrollToColumn(dom, layout, clientWidth, targetColumnLeft, timelineViewportWidth) ==
    IF /\ targetColumnLeft >= dom.scrollLeft
       /\ targetColumnLeft + layout.columnWidth
            <= dom.scrollLeft + timelineViewportWidth
    THEN [dom EXCEPT !.ref = NULL]
    ELSE [dom EXCEPT
            !.ref = NULL,
            !.scrollCalls = @ + 1,
            !.scrollTo =
                Some(clamp(targetColumnLeft
                            - MathMax((timelineViewportWidth - layout.columnWidth)
                                        \div 2, 0),
                           0,
                           MathMax(layout.totalGridWidth - clientWidth, 0)))]
ScrollToIndex(dom, layout, clientWidth, targetIndex) ==
    IF targetIndex < 0 THEN [dom EXCEPT !.ref = NULL]
    ELSE ScrollToColumn(dom, layout, clientWidth, targetIndex * layout.columnWidth,
                        MathMax(clientWidth - layout.employeeColumnWidth,
                                layout.columnWidth))
\* the effect that scrolls the target column of the date picker into view
ScrollToDateEffect(dom, layout, clientWidth) ==
    IF layout.isMobile THEN dom
    ELSE IF layout.viewMode # "week" /\ layout.viewMode # "month" THEN dom
    ELSE IF dom.ref = NULL THEN dom
    ELSE ScrollToIndex(dom, layout, clientWidth,
                       findIndex(visibleDates(layout.viewMode, layout.selectedDate),
                                 dom.ref[1]))

\* the effect that makes the selected date the target
TargetEffect(dom, layout) ==
    IF layout.isMobile THEN dom
    ELSE IF layout.viewMode # "week" /\ layout.viewMode # "month" THEN dom
    ELSE [dom EXCEPT !.ref = Some(layout.selectedDateKey)]

\* The effects of one commit in the order of their declaration, each run
\* when one of its dependencies differs from the previous render (prev);
\* newDates tells that visibleDates was recomputed.
ClampScrollPass(dom, prev, layout, clientWidth) ==
    IF prev.totalGridWidth # layout.totalGridWidth
    THEN ClampScrollEffect(dom, layout, clientWidth)
    ELSE dom
ScrollToDatePass(dom, prev, layout, newDates, clientWidth) ==
    IF \/ newDates
       \/ prev.columnWidth # layout.columnWidth
       \/ prev.employeeColumnWidth # layout.employeeColumnWidth
       \/ prev.isMobile # layout.isMobile
       \/ prev.totalGridWidth # layout.totalGridWidth
       \/ prev.viewMode # layout.viewMode
    THEN ScrollToDateEffect(dom, layout, clientWidth)
    ELSE dom
TargetPass(dom, prev, layout) ==
    IF \/ prev.isMobile # layout.isMobile
       \/ prev.selectedDateKey # layout.selectedDateKey
       \/ prev.viewMode # layout.viewMode
    THEN TargetEffect(dom, layout)
    ELSE dom
EffectsPass(dom, prev, layout, newDates, clientWidth) ==
    TargetPass(ScrollToDatePass(ClampScrollPass(dom, prev, layout, clientWidth),
                                prev, layout, newDates, clientWidth),
               prev, layout)
\* the render that follows when the clamp effect stored another width
Rerendered(dom, layout, selectedDate, clientWidth) ==
    IF dom.width = layout.width THEN dom
    ELSE EffectsPass(dom, layout,
                     Layout(layout.viewMode, layout.isMobile, dom.width, selectedDate),
                     FALSE, clientWidth)
\* the state of the effects once the renders after a state change settle
Commit(dom, prev, layout, newDates, selectedDate, clientWidth) ==
    Rerendered(EffectsPass(dom, prev, layout, newDates, clientWidth),
               layout, selectedDate, clientWidth)

----------------------------------------------------------------------------
\* State

VARIABLES
    shifts,             \* useState(initialShifts)
    nextId,             \* the next value crypto.randomUUID() returns
    languageId,         \* useState(getInitialLanguage)
    modalDraft,         \* NULL or Some(ModalDraft)
    error,              \* NULL or Some(message)
    draggingShiftId,    \* NULL or Some(id)
    dataTransfer,       \* text/plain data of the native drag: NULL or Some(id)
    resizeState,        \* NULL or Some(ResizeState)
    resizingRef,        \* resizingRef.current
    pointerListeners,   \* window pointermove/pointerup listeners attached
    userSelect,         \* document.body.style.userSelect
    mounted,            \* FALSE once the component is torn down (isCancelled)
    loadState,          \* "pending", "resolved", "rejected"
    isStorageReady,
    store,              \* value under the shifts key of the object store
    inflight,           \* arguments of the saveShiftsToIndexedDb calls not yet
                        \* settled, oldest first
    saveFailed,         \* some save has been rejected
    gestures,           \* user gestures handled so far
    viewMode,           \* useState(getInitialViewMode)
    selectedDate,       \* useState(getInitialSelectedDate)
    isMobile,           \* useState: the media query of the breakpoint matches
    highlightedColumnDateKey,   \* NULL or Some(dateKey)
    highlightTimerRef,  \* highlightTimerRef.current: NULL or Some(timer id)
    timers,             \* ids of the window timers that are pending
    nextTimer,          \* the id the next window.setTimeout returns
    datepickerTargetDateKeyRef, \* .current: NULL or Some(dateKey)
    clientWidth,        \* clientWidth of the grid viewport, 0 without a grid
    scrollLeft,         \* scrollLeft of the grid viewport
    scrollTo,           \* NULL or Some(left): the smooth scroll on its way
    scrollCalls,        \* calls of viewport.scrollTo so far
    virtualWidth,       \* virtualViewport.width
    viewportObserved,   \* scroll listener and ResizeObserver attached to the
                        \* grid viewport that is rendered
    call                \* NULL or Some(call): the last call of a pure function
                        \* of the render, with its arguments and its result

appVars ==
    <<shifts, nextId, languageId, modalDraft, error, draggingShiftId, dataTransfer,
      resizeState, resizingRef, pointerListeners, userSelect, mounted, loadState,
      isStorageReady, store, inflight, saveFailed, gestures, viewMode, selectedDate,
      isMobile, highlightedColumnDateKey, highlightTimerRef, timers, nextTimer,
      datepickerTargetDateKeyRef, clientWidth, scrollLeft, scrollTo, scrollCalls,
      virtualWidth, viewportObserved>>
vars == <<appVars, call>>

modalVars == <<modalDraft, error>>
dragVars == <<draggingShiftId, dataTransfer>>
resizeVars == <<resizeState, resizingRef, pointerListeners, userSelect>>
storageVars == <<loadState, isStorageReady, store, saveFailed>>
highlightVars == <<highlightedColumnDateKey, highlightTimerRef, timers, nextTimer>>
scrollVars == <<datepickerTargetDateKeyRef, scrollLeft, scrollTo, scrollCalls, virtualWidth>>
viewVars ==
    <<viewMode, selectedDate, isMobile, highlightVars, scrollVars, clientWidth,
      viewportObserved>>

Range(s) == {s[i] : i \in 1..Len(s)}

\* the effects of the mount, in the order of their declaration: the first
\* render has virtualViewport.width 0 and no target
MountedDom(layout, date, width) ==
    Rerendered(
        TargetEffect(
            ScrollToDateEffect(
                ClampScrollEffect([ref |-> NULL, scrollLeft |-> 0, scrollTo |-> NULL,
                                   scrollCalls |-> 0, width |-> 0],
                                  layout, width),
                layout, width),
            layout),
        layout, date, width)
\* the layout state of a component mounted in view mode `mode` on a mobile
\* or desktop window whose grid viewport is `width` wide
MountedViewWith(mode, mobile, width, dom) ==
    /\ viewMode = mode
    /\ selectedDate = Today
    /\ isMobile = mobile
    /\ highlightedColumnDateKey = NULL
    /\ highlightTimerRef = NULL
    /\ timers = {}
    /\ nextTimer = 1
    /\ datepickerTargetDateKeyRef = dom.ref
    /\ clientWidth = width
    /\ scrollLeft = dom.scrollLeft
    /\ scrollTo = dom.scrollTo
    /\ scrollCalls = dom.scrollCalls
    /\ virtualWidth = dom.width
    /\ viewportObserved = ~mobile
MountedView(mode, mobile, width) ==
    MountedViewWith(mode, mobile, IF mobile THEN 0 ELSE width,
                    MountedDom(Layout(mode, mobile, 0, Today), Today,
                               IF mobile THEN 0 ELSE width))

\* the state after the first render of a component holding `collection`,
\* with its layout and the language getInitialLanguage returns
MountedIn(language, collection, mode, mobile, width) ==
    /\ MountedView(mode, mobile, width)
    /\ call = NULL
    /\ shifts = collection
    /\ nextId = 4
    /\ languageId = language
    /\ modalDraft = NULL
    /\ error = NULL
    /\ draggingShiftId = NULL
    /\ dataTransfer = NULL
    /\ resizeState = NULL
    /\ resizingRef = FALSE
    /\ pointerListeners = FALSE
    /\ userSelect = ""
    /\ mounted = TRUE
    /\ loadState = "pending"
    /\ isStorageReady = FALSE
    /\ store \in InitialStores
    /\ inflight = << >>
    /\ saveFailed = FALSE
    /\ gestures = 0

\* the same with no language stored: the default language
Mounted(collection, mode, mobile, width) ==
    MountedIn("ru", collection, mode, mobile, width)

\* the same in the day view of a desktop window
InitWith(collection) == Mounted(collection, "day", FALSE, 1160)

Init == InitWith(initialShifts)

\* A handler runs for a user gesture on the mounted component.
Gesture ==
    /\ mounted
    /\ gestures < MaxGestures
    /\ gestures' = gestures + 1
    /\ UNCHANGED <<call, viewVars>>

\* Faulty variant: a save effect that does not wait for storage to be ready
SaveEffectUngated(ready, next) == inflight' = Append(inflight, next)

\* The save effect (deps [isStorageReady, shifts]) after a render in which
\* setShifts was called with `next`: a save of the whole collection is issued
\* when storage is ready.
SaveEffect(ready, next) ==
    IF ready
    THEN /\ Len(inflight) < MaxInflight
         /\ inflight' = Append(inflight, next)
    ELSE inflight' = inflight

\* Faulty variant: the save is issued with the collection of the previous render
SetShiftsStale(next) ==
    /\ shifts' = next
    /\ SaveEffect(isStorageReady, shifts)

\* setShifts(next) from a gesture, with the effects of the render it causes
SetShifts(next) ==
    /\ shifts' = next
    /\ SaveEffect(isStorageReady, next)

----------------------------------------------------------------------------
\* Modal: create / edit drafts

closeModal ==
    /\ modalDraft' = NULL
    /\ error' = NULL

openCreateShiftModal(employeeId, dateKey, startMinutes) ==
    LET snappedStart == snapToStep(ToQ(startMinutes), SNAP_MINUTES)
        defaultEnd == clamp(Plus(snappedStart, 4 * 60),
                            Plus(snappedStart, MIN_SHIFT_MINUTES), MAX_MODAL_MINUTES)
    IN  /\ Gesture
        /\ error' = NULL
        /\ modalDraft' = Some([mode |-> "create", shiftId |-> NULL,
                               employeeId |-> employeeId, dateKey |-> dateKey,
                               title |-> translations(languageId).newShiftTitle,
                               startTime |-> formatTime(snappedStart),
                               endTime |-> formatTime(defaultEnd)])
        /\ UNCHANGED <<shifts, nextId, languageId, dragVars, resizeVars, mounted,
                       storageVars, inflight>>

openEditShiftModal(shift) ==
    /\ Gesture
    /\ error' = NULL
    /\ modalDraft' = Some([mode |-> "edit", shiftId |-> Some(shift.id),
                           employeeId |-> shift.employeeId, dateKey |-> shift.dateKey,
                           title |-> shift.title,
                           startTime |-> formatTime(shift.start),
                           endTime |-> formatTime(shift.end)])
    /\ UNCHANGED <<shifts, nextId, languageId, dragVars, resizeVars, mounted,
                   storageVars, inflight>>

\* the Cancel button and a click on the backdrop
CancelModal ==
    /\ Gesture
    /\ modalDraft # NULL
    /\ closeModal
    /\ UNCHANGED <<shifts, nextId, languageId, dragVars, resizeVars, mounted,
                   storageVars, inflight>>

\* onChange of a field of the form: setModalDraft(prev => prev ? {...prev, f: v} : prev)
ChangeDraft(field, value) ==
    /\ Gesture
    /\ modalDraft # NULL
    /\ modalDraft[1][field] # value
    /\ modalDraft' = Some([modalDraft[1] EXCEPT ![field] = value])
    /\ UNCHANGED <<shifts, nextId, languageId, error, dragVars, resizeVars, mounted,
                   storageVars, inflight>>

ChangeDraftTitle(value) == ChangeDraft("title", value)
ChangeDraftEmployee(value) == ChangeDraft("employeeId", value)
ChangeDraftDate(value) == ChangeDraft("dateKey", value)
ChangeDraftStartTime(value) == ChangeDraft("startTime", value)
ChangeDraftEndTime(value) == ChangeDraft("endTime", value)

\* Faulty variant: a title that is the new-shift title of some language is
\* stored as the new-shift title of the selected language
OrDefaultTranslated(trimmed) ==
    IF trimmed = << >> THEN translations(languageId).defaultShiftTitle
    ELSE IF \E language \in LanguageIds : trimmed = translations(language).newShiftTitle
    THEN translations(languageId).newShiftTitle
    ELSE trimmed

\* title.trim() || defaultShiftTitle
OrDefault(trimmed) ==
    IF trimmed # << >> THEN trimmed ELSE translations(languageId).defaultShiftTitle
SavedTitle(draft) == OrDefault(trim(draft.title))

\* The message (the pieces of its text) handleSaveShift rejects the draft
\* with, or NULL when it accepts it
RangeError(snappedStart, snappedEnd, t) ==
    IF Le(snappedEnd, snappedStart) THEN Some(<<t.endAfterStart>>)
    ELSE IF Lt(Minus(snappedEnd, snappedStart), MIN_SHIFT_MINUTES)
    THEN Some(<<t.minShiftDuration, " - ">> \o String(MIN_SHIFT_MINUTES) \o <<" min">>)
    ELSE NULL
ParsedError(parsedDate, start, end, t) ==
    IF parsedDate = NULL THEN Some(<<t.invalidDate>>)
    ELSE IF start = NULL \/ end = NULL THEN Some(<<t.invalidTime>>)
    ELSE RangeError(snapToStep(start, SNAP_MINUTES), snapToStep(end, SNAP_MINUTES), t)
ValidationError(draft) ==
    ParsedError(parseDateKeyOf(draft.dateKey), parseTimeOf(draft.startTime),
                parseTimeOf(draft.endTime), translations(languageId))

\* The collection handleSaveShift sets for an accepted draft
\* Faulty variant: an edited shift is appended as a new one instead of
\* replacing the shift it was opened from
SavedWithAppending(draft, prev, title, snappedStart, snappedEnd) ==
    Append(prev, [id |-> nextId, employeeId |-> draft.employeeId,
                  dateKey |-> draft.dateKey, title |-> title,
                  start |-> snappedStart, end |-> snappedEnd])

\* Faulty variant: a created shift takes the number of shifts as its id
SavedWithCountAsId(draft, prev, title, snappedStart, snappedEnd) ==
    LET Update(shift) ==
            IF Some(shift.id) = draft.shiftId
            THEN [shift EXCEPT !.employeeId = draft.employeeId,
                               !.dateKey = draft.dateKey,
                               !.title = title,
                               !.start = snappedStart,
                               !.end = snappedEnd]
            ELSE shift
    IN  IF draft.mode = "edit" /\ draft.shiftId # NULL
        THEN MapSeq(Update, prev)
        ELSE Append(prev, [id |-> Len(prev), employeeId |-> draft.employeeId,
                           dateKey |-> draft.dateKey, title |-> title,
                           start |-> snappedStart, end |-> snappedEnd])

SavedWith(draft, prev, title, snappedStart, snappedEnd) ==
    LET Update(shift) ==
            IF Some(shift.id) = draft.shiftId
            THEN [shift EXCEPT !.employeeId = draft.employeeId,
                               !.dateKey = draft.dateKey,
                               !.title = title,
                               !.start = snappedStart,
                               !.end = snappedEnd]
            ELSE shift
    IN  IF draft.mode = "edit" /\ draft.shiftId # NULL
        THEN MapSeq(Update, prev)
        ELSE Append(prev, [id |-> nextId, employeeId |-> draft.employeeId,
                           dateKey |-> draft.dateKey, title |-> title,
                           start |-> snappedStart, end |-> snappedEnd])
SavedShifts(draft, prev) ==
    SavedWith(draft, prev, SavedTitle(draft),
              snapToStep(parseTimeOf(draft.startTime), SNAP_MINUTES),
              snapToStep(parseTimeOf(draft.endTime), SNAP_MINUTES))

\* Faulty variant: a rejected draft is discarded
SaveShiftClosing(draft, rejection) ==
    IF rejection # NULL
    THEN /\ error' = rejection
         /\ modalDraft' = NULL
         /\ UNCHANGED <<shifts, nextId, inflight>>
    ELSE /\ SetShifts(SavedShifts(draft, shifts))
         /\ nextId' = IF draft.mode = "edit" /\ draft.shiftId # NULL
                      THEN nextId ELSE nextId + 1
         /\ closeModal

SaveShift(draft, rejection) ==
    IF rejection # NULL
    THEN /\ error' = rejection
         /\ UNCHANGED <<shifts, nextId, modalDraft, inflight>>
    ELSE /\ SetShifts(SavedShifts(draft, shifts))
         /\ nextId' = IF draft.mode = "edit" /\ draft.shiftId # NULL
                      THEN nextId ELSE nextId + 1
         /\ closeModal

handleSaveShift ==
    /\ Gesture
    /\ modalDraft # NULL
    /\ SaveShift(modalDraft[1], ValidationError(modalDraft[1]))
    /\ UNCHANGED <<languageId, dragVars, resizeVars, mounted, storageVars>>

\* Faulty variant: delete acts on any open draft
handleDeleteShiftAnyDraft ==
    /\ Gesture
    /\ modalDraft # NULL
    /\ LET Keep(shift) == Some(shift.id) # modalDraft[1].shiftId
       IN  SetShifts(FilterSeq(Keep, shifts))
    /\ closeModal
    /\ UNCHANGED <<nextId, languageId, dragVars, resizeVars, mounted, storageVars>>

handleDeleteShift ==
    /\ Gesture
    /\ modalDraft # NULL
    /\ modalDraft[1].mode = "edit"
    /\ modalDraft[1].shiftId # NULL
    /\ LET Keep(shift) == Some(shift.id) # modalDraft[1].shiftId
       IN  SetShifts(FilterSeq(Keep, shifts))
    /\ closeModal
    /\ UNCHANGED <<nextId, languageId, dragVars, resizeVars, mounted, storageVars>>

\* onChange of the language picker: a value that is no language id is ignored
onLanguageChange(nextLanguage) ==
    /\ Gesture
    /\ nextLanguage \in LanguageIds
    /\ languageId' = nextLanguage
    /\ UNCHANGED <<shifts, nextId, modalVars, dragVars, resizeVars, mounted,
                   storageVars, inflight>>

----------------------------------------------------------------------------
\* Drag and drop

\* Faulty variant: the drag starts whether or not a resize is active
handleDragStartUnguarded(shift) ==
    /\ Gesture
    /\ dataTransfer = NULL
    /\ dataTransfer' = Some(shift.id)
    /\ draggingShiftId' = Some(shift.id)
    /\ UNCHANGED <<shifts, nextId, languageId, modalVars, resizeVars, mounted,
                   storageVars, inflight>>

\* onDragStart of a shift block; with a resize active the handler cancels the
\* event and returns
handleDragStart(shift) ==
    /\ Gesture
    /\ dataTransfer = NULL
    /\ ~(resizeState # NULL \/ resizingRef)
    /\ dataTransfer' = Some(shift.id)
    /\ draggingShiftId' = Some(shift.id)
    /\ UNCHANGED <<shifts, nextId, languageId, modalVars, resizeVars, mounted,
                   storageVars, inflight>>

\* onDragEnd of the dragged block: the drag ended without a drop on a cell
handleDragEnd ==
    /\ Gesture
    /\ dataTransfer # NULL
    /\ draggingShiftId' = NULL
    /\ dataTransfer' = NULL
    /\ UNCHANGED <<shifts, nextId, languageId, modalVars, resizeVars, mounted,
                   storageVars, inflight>>

\* Faulty variant: the dropped shift starts at the hour cell even when its
\* duration no longer fits into the day
handleDropOnTimelineUnclamped(employeeId, dateKey, offsetX, width) ==
    LET shiftId == dataTransfer
        x == clamp(offsetX, 0, width - 1)
        hourIndex == clamp(x \div HOUR_WIDTH, 0, HOURS_LENGTH - 1)
        cellStart == hourIndex * 60
        Move(shift) ==
            IF Some(shift.id) # shiftId THEN shift
            ELSE [shift EXCEPT !.employeeId = employeeId, !.dateKey = dateKey,
                               !.start = cellStart,
                               !.end = Plus(cellStart, Minus(shift.end, shift.start))]
    IN  /\ Gesture
        /\ shiftId # NULL
        /\ SetShifts(MapSeq(Move, shifts))
        /\ draggingShiftId' = NULL
        /\ dataTransfer' = NULL
        /\ UNCHANGED <<nextId, languageId, modalVars, resizeVars, mounted, storageVars>>

\* offsetX is event.clientX - timelineRect.left, width is timelineRect.width
handleDropOnTimeline(employeeId, dateKey, offsetX, width) ==
    LET shiftId == dataTransfer
        x == clamp(offsetX, 0, width - 1)
        hourIndex == clamp(x \div HOUR_WIDTH, 0, HOURS_LENGTH - 1)
        cellStart == hourIndex * 60
        Move(shift) ==
            IF Some(shift.id) # shiftId THEN shift
            ELSE LET duration == Minus(shift.end, shift.start)
                     nextStart == clamp(cellStart, 0, Minus(MINUTES_IN_DAY, duration))
                 IN  [shift EXCEPT !.employeeId = employeeId, !.dateKey = dateKey,
                                   !.start = nextStart,
                                   !.end = Plus(nextStart, duration)]
    IN  /\ Gesture
        /\ shiftId # NULL
        /\ SetShifts(MapSeq(Move, shifts))
        /\ draggingShiftId' = NULL
        /\ dataTransfer' = NULL
        /\ UNCHANGED <<nextId, languageId, modalVars, resizeVars, mounted, storageVars>>

\* Faulty variant: the dropped shift is taken out and put back at the end of
\* the collection
handleDropOnDateCellAppending(employeeId, dateKey) ==
    LET shiftId == dataTransfer
        Keep(shift) == Some(shift.id) # shiftId
        Dragged(shift) == Some(shift.id) = shiftId
        Move(shift) == [shift EXCEPT !.employeeId = employeeId, !.dateKey = dateKey]
    IN  /\ Gesture
        /\ shiftId # NULL
        /\ SetShifts(FilterSeq(Keep, shifts) \o MapSeq(Move, FilterSeq(Dragged, shifts)))
        /\ draggingShiftId' = NULL
        /\ dataTransfer' = NULL
        /\ UNCHANGED <<nextId, languageId, modalVars, resizeVars, mounted, storageVars>>

\* onDrop of a date cell of the week or month view
handleDropOnDateCell(employeeId, dateKey) ==
    LET shiftId == dataTransfer
        Move(shift) ==
            IF Some(shift.id) = shiftId
            THEN [shift EXCEPT !.employeeId = employeeId, !.dateKey = dateKey]
            ELSE shift
    IN  /\ Gesture
        /\ shiftId # NULL
        /\ SetShifts(MapSeq(Move, shifts))
        /\ draggingShiftId' = NULL
        /\ dataTransfer' = NULL
        /\ UNCHANGED <<nextId, languageId, modalVars, resizeVars, mounted, storageVars>>

----------------------------------------------------------------------------
\* Resize

\* pointer-down on a handle; the resize effect then (re)runs: the cleanup of a
\* gesture still active resets resizingRef, and the listeners are attached
startResize(shift, edge, pixelsPerHour, clientX) ==
    /\ Gesture
    /\ resizingRef' = (resizeState = NULL)
    /\ draggingShiftId' = NULL
    /\ resizeState' = Some([shiftId |-> shift.id, edge |-> edge, originX |-> clientX,
                            originStart |-> shift.start, originEnd |-> shift.end,
                            pixelsPerHour |-> pixelsPerHour])
    /\ userSelect' = "none"
    /\ pointerListeners' = TRUE
    /\ UNCHANGED <<shifts, nextId, languageId, modalVars, dataTransfer, mounted,
                   storageVars, inflight>>

\* Faulty variant: the moved edge is kept inside the day but not away from
\* the opposite edge
ResizedUnclamped(rs, clientX, shift) ==
    LET deltaPx == clientX - rs.originX
        deltaMinutes == snapToStep(<<deltaPx * rs.pixelsPerHour[2] * 60,
                                     rs.pixelsPerHour[1]>>, SNAP_MINUTES)
    IN  IF shift.id # rs.shiftId THEN shift
        ELSE IF rs.edge = "left"
        THEN [shift EXCEPT
                !.start = clamp(Plus(rs.originStart, deltaMinutes), 0, MINUTES_IN_DAY),
                !.end = rs.originEnd]
        ELSE [shift EXCEPT
                !.start = rs.originStart,
                !.end = clamp(Plus(rs.originEnd, deltaMinutes), 0, MINUTES_IN_DAY)]

\* Faulty variant: the pointer delta is truncated to whole minutes, not
\* snapped to the 15-minute grid
ResizedRawDelta(rs, clientX, shift) ==
    LET deltaPx == clientX - rs.originX
        deltaMinutes == QTrunc(<<deltaPx * rs.pixelsPerHour[2] * 60,
                                 rs.pixelsPerHour[1]>>)
    IN  IF shift.id # rs.shiftId THEN shift
        ELSE IF rs.edge = "left"
        THEN [shift EXCEPT
                !.start = clamp(Plus(rs.originStart, deltaMinutes), 0,
                                Minus(rs.originEnd, MIN_SHIFT_MINUTES)),
                !.end = rs.originEnd]
        ELSE [shift EXCEPT
                !.start = rs.originStart,
                !.end = clamp(Plus(rs.originEnd, deltaMinutes),
                              Plus(rs.originStart, MIN_SHIFT_MINUTES), MINUTES_IN_DAY)]

\* The shift a pointer-move at clientX turns `shift` into
Resized(rs, clientX, shift) ==
    LET deltaPx == clientX - rs.originX
        deltaMinutes == snapToStep(<<deltaPx * rs.pixelsPerHour[2] * 60,
                                     rs.pixelsPerHour[1]>>, SNAP_MINUTES)
    IN  IF shift.id # rs.shiftId THEN shift
        ELSE IF rs.edge = "left"
        THEN [shift EXCEPT
                !.start = clamp(Plus(rs.originStart, deltaMinutes), 0,
                                Minus(rs.originEnd, MIN_SHIFT_MINUTES)),
                !.end = rs.originEnd]
        ELSE [shift EXCEPT
                !.start = rs.originStart,
                !.end = clamp(Plus(rs.originEnd, deltaMinutes),
                              Plus(rs.originStart, MIN_SHIFT_MINUTES), MINUTES_IN_DAY)]

\* the collection the updater of a pointer-move at clientX makes of prev,
\* and the one the pointer-moves at clientXs, one after the other, make of it
PointerMoved(rs, clientX, prev) ==
    LET Step(shift) == Resized(rs, clientX, shift)
    IN  MapSeq(Step, prev)
RECURSIVE PointerMoves(_, _, _)
PointerMoves(rs, clientXs, prev) ==
    IF clientXs = << >> THEN prev
    ELSE PointerMoves(rs, Tail(clientXs), PointerMoved(rs, Head(clientXs), prev))

onPointerMove(clientX) ==
    /\ Gesture
    /\ pointerListeners
    /\ LET Step(shift) == Resized(resizeState[1], clientX, shift)
       IN  SetShifts(MapSeq(Step, shifts))
    /\ UNCHANGED <<nextId, languageId, modalVars, dragVars, resizeVars, mounted,
                   storageVars>>

\* Faulty variant: pointer-up detaches the listeners but keeps the resize state
onPointerUpKeepingState ==
    /\ Gesture
    /\ pointerListeners
    /\ resizingRef' = FALSE
    /\ userSelect' = ""
    /\ pointerListeners' = FALSE
    /\ UNCHANGED <<shifts, nextId, languageId, modalVars, dragVars, resizeState,
                   mounted, storageVars, inflight>>

\* pointerup on the window during a resize, and the effect cleanup that follows
onPointerUp ==
    /\ Gesture
    /\ pointerListeners
    /\ resizingRef' = FALSE
    /\ resizeState' = NULL
    /\ userSelect' = ""
    /\ pointerListeners' = FALSE
    /\ UNCHANGED <<shifts, nextId, languageId, modalVars, dragVars, mounted,
                   storageVars, inflight>>

----------------------------------------------------------------------------
\* Storage: the initial load, the saves in flight, teardown

\* loadShiftsFromIndexedDb() resolves: .then of the load effect
LoadResolve ==
    /\ loadState = "pending"
    /\ loadState' = "resolved"
    /\ LET storedShifts == loadShiftsFromIndexedDb(store)
       IN  IF ~mounted
           THEN UNCHANGED <<shifts, isStorageReady, inflight>>
           ELSE /\ shifts' = IF storedShifts # NULL THEN storedShifts[1] ELSE shifts
                /\ isStorageReady' = TRUE
                /\ SaveEffect(TRUE, shifts')
    /\ UNCHANGED <<nextId, languageId, modalVars, dragVars, resizeVars, mounted, store,
                   saveFailed, gestures, call, viewVars>>

\* Faulty variant: a failed load does not mark storage ready
LoadRejectNotReady ==
    /\ loadState = "pending"
    /\ loadState' = "rejected"
    /\ UNCHANGED <<shifts, nextId, languageId, modalDraft, error, dragVars, resizeVars,
                   mounted, isStorageReady, store, inflight, saveFailed, gestures, call, viewVars>>

\* Faulty variant: a failed load empties the collection and shows an error
LoadRejectClearing ==
    /\ loadState = "pending"
    /\ loadState' = "rejected"
    /\ shifts' = << >>
    /\ error' = Some(<<"load failed">>)
    /\ IF ~mounted
       THEN UNCHANGED <<isStorageReady, inflight>>
       ELSE /\ isStorageReady' = TRUE
            /\ SaveEffect(TRUE, shifts')
    /\ UNCHANGED <<nextId, languageId, modalDraft, dragVars, resizeVars, mounted,
                   store, saveFailed, gestures, call, viewVars>>

\* loadShiftsFromIndexedDb() rejects (open or read error): .catch of the load effect
LoadReject ==
    /\ loadState = "pending"
    /\ loadState' = "rejected"
    /\ IF ~mounted
       THEN UNCHANGED <<isStorageReady, inflight>>
       ELSE /\ isStorageReady' = TRUE
            /\ SaveEffect(TRUE, shifts)
    /\ UNCHANGED <<shifts, nextId, languageId, modalVars, dragVars, resizeVars, mounted,
                   store, saveFailed, gestures, call, viewVars>>

Remove(s, i) == SubSeq(s, 1, i - 1) \o SubSeq(s, i + 1, Len(s))

\* The put of the i-th save in flight succeeds: the stored value is replaced.
\* Nothing in saveShiftsToIndexedDb orders one call after another.
SaveComplete(i) ==
    /\ i \in 1..Len(inflight)
    /\ store' = [isArray |-> TRUE, items |-> MapSeq(ToStored, inflight[i])]
    /\ inflight' = Remove(inflight, i)
    /\ UNCHANGED <<shifts, nextId, languageId, modalVars, dragVars, resizeVars, mounted,
                   loadState, isStorageReady, saveFailed, gestures, call, viewVars>>

\* The i-th save in flight rejects: .catch logs the error
SaveFail(i) ==
    /\ i \in 1..Len(inflight)
    /\ inflight' = Remove(inflight, i)
    /\ saveFailed' = TRUE
    /\ UNCHANGED <<shifts, nextId, languageId, modalVars, dragVars, resizeVars, mounted,
                   loadState, isStorageReady, store, gestures, call, viewVars>>

----------------------------------------------------------------------------
\* Date picker, view mode, highlight and scroll

\* the part of the state the effects work on, and its new value
Dom ==
    [ref |-> datepickerTargetDateKeyRef, scrollLeft |-> scrollLeft, scrollTo |-> scrollTo,
     scrollCalls |-> scrollCalls, width |-> virtualWidth]
Settled(settled) ==
    \E dom \in {settled} :
        /\ datepickerTargetDateKeyRef' = dom.ref
        /\ scrollLeft' = dom.scrollLeft
        /\ scrollTo' = dom.scrollTo
        /\ scrollCalls' = dom.scrollCalls
        /\ virtualWidth' = dom.width

\* Faulty variant: the timer that is pending is not cancelled
StartHighlightKeepingTimer(dateKey) ==
    /\ highlightedColumnDateKey' = Some(dateKey)
    /\ timers' = timers \cup {nextTimer}
    /\ highlightTimerRef' = Some(nextTimer)
    /\ nextTimer' = nextTimer + 1

\* setHighlightedColumnDateKey(dateKey), clearTimeout of the pending timer,
\* setTimeout of a new one
StartHighlight(dateKey) ==
    /\ highlightedColumnDateKey' = Some(dateKey)
    /\ timers' = (IF highlightTimerRef # NULL THEN timers \ {highlightTimerRef[1]}
                  ELSE timers) \cup {nextTimer}
    /\ highlightTimerRef' = Some(nextTimer)
    /\ nextTimer' = nextTimer + 1

\* Faulty variant: the highlight is started on mobile too
DatePickedOnAnyLayout(parsed, parsedDateKey) ==
    /\ selectedDate' = parsed
    /\ IF viewMode = "week" \/ viewMode = "month"
       THEN StartHighlight(parsedDateKey)
       ELSE UNCHANGED highlightVars
    /\ Settled(Commit([Dom EXCEPT !.ref = Some(parsedDateKey)],
                      Layout(viewMode, isMobile, virtualWidth, selectedDate),
                      Layout(viewMode, isMobile, virtualWidth, parsed),
                      TRUE, parsed, clientWidth))

DatePicked(parsed, parsedDateKey) ==
    /\ selectedDate' = parsed
    /\ IF ~isMobile /\ (viewMode = "week" \/ viewMode = "month")
       THEN StartHighlight(parsedDateKey)
       ELSE UNCHANGED highlightVars
    /\ Settled(Commit([Dom EXCEPT !.ref = Some(parsedDateKey)],
                      Layout(viewMode, isMobile, virtualWidth, selectedDate),
                      Layout(viewMode, isMobile, virtualWidth, parsed),
                      TRUE, parsed, clientWidth))
onDatepickerChange(value) ==
    /\ mounted
    /\ gestures < MaxGestures
    /\ gestures' = gestures + 1
    /\ parseDateKeyOf(value) # NULL
    /\ DatePicked(parseDateKeyOf(value), dateToKey(parseDateKeyOf(value)))
    /\ UNCHANGED <<shifts, nextId, languageId, modalVars, dragVars, resizeVars, mounted,
                   storageVars, inflight, call, viewMode, isMobile, clientWidth,
                   viewportObserved>>

handleViewModeChange(mode) ==
    /\ mounted
    /\ gestures < MaxGestures
    /\ gestures' = gestures + 1
    /\ viewMode' = mode
    /\ IF ~isMobile /\ (mode = "week" \/ mode = "month")
       THEN /\ StartHighlight(dateToKey(selectedDate))
            /\ Settled(Commit([Dom EXCEPT !.ref = Some(dateToKey(selectedDate))],
                              Layout(viewMode, isMobile, virtualWidth, selectedDate),
                              Layout(mode, isMobile, virtualWidth, selectedDate),
                              mode # viewMode, selectedDate, clientWidth))
       ELSE /\ UNCHANGED highlightVars
            /\ Settled(Commit(Dom,
                              Layout(viewMode, isMobile, virtualWidth, selectedDate),
                              Layout(mode, isMobile, virtualWidth, selectedDate),
                              mode # viewMode, selectedDate, clientWidth))
    /\ UNCHANGED <<shifts, nextId, languageId, modalVars, dragVars, resizeVars, mounted,
                   storageVars, inflight, call, selectedDate, isMobile, clientWidth,
                   viewportObserved>>

\* Faulty variant: the callback resets the handle and leaves the highlight
HighlightTimeoutKeepingHighlight(timer) ==
    /\ timer \in timers
    /\ timers' = timers \ {timer}
    /\ highlightTimerRef' = NULL
    /\ UNCHANGED <<shifts, nextId, languageId, modalVars, dragVars, resizeVars, mounted,
                   storageVars, inflight, gestures, call, viewMode, selectedDate, isMobile,
                   highlightedColumnDateKey, nextTimer, scrollVars, clientWidth,
                   viewportObserved>>

\* The callback of the highlight timer `timer` runs.
HighlightTimeout(timer) ==
    /\ timer \in timers
    /\ timers' = timers \ {timer}
    /\ highlightedColumnDateKey' = (IF mounted THEN NULL ELSE highlightedColumnDateKey)
    /\ highlightTimerRef' = NULL
    /\ UNCHANGED <<shifts, nextId, languageId, modalVars, dragVars, resizeVars, mounted,
                   storageVars, inflight, gestures, call, viewMode, selectedDate, isMobile,
                   nextTimer, scrollVars, clientWidth, viewportObserved>>

\* The media query of the breakpoint changes.  Towards mobile the list
\* replaces the grid: its viewport goes, and an observer attached to it
\* reports the width 0.  Towards desktop a grid viewport `width` wide is
\* rendered, which the listeners of the mount are not attached to.
MediaChange(width) ==
    /\ mounted
    /\ gestures < MaxGestures
    /\ gestures' = gestures + 1
    /\ isMobile' = ~isMobile
    /\ viewportObserved' = FALSE
    /\ IF ~isMobile
       THEN /\ clientWidth' = 0
            /\ Settled(Commit([Dom EXCEPT
                                 !.scrollLeft = 0,
                                 !.scrollTo = NULL,
                                 !.width = IF viewportObserved THEN 0 ELSE @],
                              Layout(viewMode, FALSE, virtualWidth, selectedDate),
                              Layout(viewMode, TRUE,
                                     IF viewportObserved THEN 0 ELSE virtualWidth,
                                     selectedDate),
                              FALSE, selectedDate, 0))
       ELSE /\ clientWidth' = width
            /\ Settled(Commit(Dom,
                              Layout(viewMode, TRUE, virtualWidth, selectedDate),
                              Layout(viewMode, FALSE, virtualWidth, selectedDate),
                              FALSE, selectedDate, width))
    /\ UNCHANGED <<shifts, nextId, languageId, modalVars, dragVars, resizeVars, mounted,
                   storageVars, inflight, call, viewMode, selectedDate, highlightVars>>

\* The grid viewport becomes `width` wide: the browser keeps the scroll
\* offset inside the canvas, and the ResizeObserver, where it is attached,
\* stores the width.
ViewportResize(width) ==
    /\ mounted
    /\ gestures < MaxGestures
    /\ gestures' = gestures + 1
    /\ ~isMobile
    /\ width # clientWidth
    /\ clientWidth' = width
    /\ IF viewportObserved
       THEN Settled(Commit(
                [Dom EXCEPT
                    !.scrollLeft =
                        MathMin(@, MathMax(
                            Layout(viewMode, isMobile, virtualWidth,
                                   selectedDate).totalGridWidth - width, 0)),
                    !.width = width],
                Layout(viewMode, isMobile, virtualWidth, selectedDate),
                Layout(viewMode, isMobile, width, selectedDate),
                FALSE, selectedDate, width))
       ELSE /\ scrollLeft' =
                MathMin(scrollLeft,
                        MathMax(Layout(viewMode, isMobile, virtualWidth,
                                       selectedDate).totalGridWidth - width, 0))
            /\ UNCHANGED <<datepickerTargetDateKeyRef, scrollTo, scrollCalls, virtualWidth>>
    /\ UNCHANGED <<shifts, nextId, languageId, modalVars, dragVars, resizeVars, mounted,
                   storageVars, inflight, call, viewMode, selectedDate, isMobile,
                   highlightVars, viewportObserved>>

\* The smooth scroll reaches its offset, inside the canvas.
ScrollArrives ==
    /\ scrollTo # NULL
    /\ scrollLeft' =
        clamp(scrollTo[1], 0,
              MathMax(Layout(viewMode, isMobile, virtualWidth,
                             selectedDate).totalGridWidth - clientWidth, 0))
    /\ scrollTo' = NULL
    /\ UNCHANGED <<shifts, nextId, languageId, modalVars, dragVars, resizeVars, mounted,
                   storageVars, inflight, gestures, call, viewMode, selectedDate, isMobile,
                   highlightVars, datepickerTargetDateKeyRef, scrollCalls, virtualWidth,
                   clientWidth, viewportObserved>>

\* Faulty variant: the cleanup leaves the highlight timer pending
UnmountKeepingTimer ==
    /\ mounted
    /\ mounted' = FALSE
    /\ resizingRef' = FALSE
    /\ pointerListeners' = FALSE
    /\ userSelect' = ""
    /\ viewportObserved' = FALSE
    /\ UNCHANGED <<shifts, nextId, languageId, modalVars, dragVars, resizeState,
                   storageVars, inflight, gestures, call, viewMode, selectedDate, isMobile,
                   highlightVars, scrollVars, clientWidth>>

\* The component unmounts: the effects' cleanups run
Unmount ==
    /\ mounted
    /\ mounted' = FALSE
    /\ resizingRef' = FALSE
    /\ pointerListeners' = FALSE
    /\ userSelect' = ""
    /\ timers' = (IF highlightTimerRef # NULL THEN timers \ {highlightTimerRef[1]}
                  ELSE timers)
    /\ viewportObserved' = FALSE
    /\ UNCHANGED <<shifts, nextId, languageId, modalVars, dragVars, resizeState,
                   storageVars, inflight, gestures, call, viewMode, selectedDate, isMobile,
                   highlightedColumnDateKey, highlightTimerRef, nextTimer, scrollVars,
                   clientWidth>>

----------------------------------------------------------------------------
\* Render: the cell index and the virtual range

\* the employees of the grid, with the characters of their ids
employees == {"e1", "e2", "e3"}
EmployeeIdText ==
    [employeeId \in employees |->
        CASE employeeId = "e1" -> <<"e", "1">>
          [] employeeId = "e2" -> <<"e", "2">>
          [] employeeId = "e3" -> <<"e", "3">>]

\* `${employeeId}|${dateKey}`
dateCellKey(employeeId, dateKey) == EmployeeIdText[employeeId] \o <<"|">> \o dateKey

\* the list the first loop of shiftsByEmployeeDate builds under `key`: the
\* shifts with that key, pushed in collection order
CellList(collection, key) ==
    LET HasKey(shift) == dateCellKey(shift.employeeId, shift.dateKey) = key
    IN  SelectSeq(collection, HasKey)

\* (a, b) => a.start - b.start as Array.prototype.sort reads it: NaN counts as 0
SortCompare(a, b) ==
    IF Minus(a.start, b.start) = NaN THEN 0 ELSE Minus(a.start, b.start)

\* the comparator orders the elements of list consistently
IsConsistentComparator(list) ==
    \A a, b, c \in Range(list) :
        /\ (SortCompare(a, b) = 0 /\ SortCompare(b, c) = 0) => SortCompare(a, c) = 0
        /\ (SortCompare(a, b) < 0 /\ SortCompare(b, c) < 0) => SortCompare(a, c) < 0
        /\ (SortCompare(a, b) > 0 /\ SortCompare(b, c) > 0) => SortCompare(a, c) > 0

\* x put into the sorted list behind every element that does not follow it
InsertSorted(list, x) ==
    LET k == CHOOSE k \in 0..Len(list) :
                 /\ \A i \in 1..k : SortCompare(list[i], x) <= 0
                 /\ \A i \in (k + 1)..Len(list) : SortCompare(list[i], x) > 0
    IN  SubSeq(list, 1, k) \o <<x>> \o SubSeq(list, k + 1, Len(list))

\* the stable sort of a list the comparator orders consistently
RECURSIVE StableSort(_)
StableSort(list) ==
    IF list = << >> THEN << >>
    ELSE InsertSorted(StableSort(SubSeq(list, 1, Len(list) - 1)), list[Len(list)])

\* the orders of the elements of list, which are distinct
Orders(list) ==
    {p \in [1..Len(list) -> Range(list)] : Range(p) = Range(list)}

\* list.sort((a, b) => a.start - b.start): the orders the sort can leave the
\* list in. The sort is stable; with a comparator that is not consistent the
\* order is implementation-defined.
ArraySort(list) ==
    IF IsConsistentComparator(list) THEN {StableSort(list)} ELSE Orders(list)

\* the Map of the memo: for every key of a shift, the orders its list can have
shiftsByEmployeeDate(collection) ==
    [key \in {dateCellKey(shift.employeeId, shift.dateKey) : shift \in Range(collection)}
        |-> ArraySort(CellList(collection, key))]

\* shiftsByEmployeeDate.get(dateCellKey(employeeId, dateKey)) ?? [], for each
\* order the list can have
getShiftsForCell(map, employeeId, dateKey) ==
    IF dateCellKey(employeeId, dateKey) \in DOMAIN map
    THEN map[dateCellKey(employeeId, dateKey)]
    ELSE {<< >>}

\* a render looks a cell up
RenderCell(employeeId, dateKey) ==
    /\ \E result \in getShiftsForCell(shiftsByEmployeeDate(shifts), employeeId, dateKey) :
          call' = Some([fn |-> "getShiftsForCell", employeeId |-> employeeId,
                        dateKey |-> dateKey, result |-> result])
    /\ UNCHANGED appVars

\* Math.floor(n / d), Math.ceil(n / d) for d > 0
MathFloor(n, d) == n \div d
MathCeil(n, d) == -((-n) \div d)

\* Faulty variant: the last item is found by rounding down
getVirtualRangeFloorEnd(itemCount, itemSize, viewportStartPx, viewportEndPx, overscan) ==
    IF itemCount <= 0 THEN [start |-> 0, end |-> -1]
    ELSE [start |-> clamp(MathFloor(MathMax(viewportStartPx, 0) * itemSize[2], itemSize[1])
                              - overscan, 0, itemCount - 1),
          end |-> clamp(MathFloor(MathMax(viewportEndPx, 0) * itemSize[2], itemSize[1])
                            + overscan, 0, itemCount - 1)]

\* Faulty variant: no item is added around the viewport
getVirtualRangeNoOverscan(itemCount, itemSize, viewportStartPx, viewportEndPx, overscan) ==
    IF itemCount <= 0 THEN [start |-> 0, end |-> -1]
    ELSE [start |-> clamp(MathFloor(MathMax(viewportStartPx, 0) * itemSize[2], itemSize[1]),
                          0, itemCount - 1),
          end |-> clamp(MathCeil(MathMax(viewportEndPx, 0) * itemSize[2], itemSize[1]),
                        0, itemCount - 1)]

\* itemSize is the rational <<n, d>>, the pixel positions are whole
getVirtualRange(itemCount, itemSize, viewportStartPx, viewportEndPx, overscan) ==
    IF itemCount <= 0 THEN [start |-> 0, end |-> -1]
    ELSE [start |-> clamp(MathFloor(MathMax(viewportStartPx, 0) * itemSize[2], itemSize[1])
                              - overscan, 0, itemCount - 1),
          end |-> clamp(MathCeil(MathMax(viewportEndPx, 0) * itemSize[2], itemSize[1])
                            + overscan, 0, itemCount - 1)]

\* a render computes the visible rows or columns
RenderRange(itemCount, itemSize, viewportStartPx, viewportEndPx, overscan) ==
    /\ call' = Some([fn |-> "getVirtualRange", itemCount |-> itemCount,
                     itemSize |-> itemSize, viewportStartPx |-> viewportStartPx,
                     viewportEndPx |-> viewportEndPx, overscan |-> overscan,
                     result |-> getVirtualRange(itemCount, itemSize, viewportStartPx,
                                                viewportEndPx, overscan)])
    /\ UNCHANGED appVars

\* employees.length
employeesLength == 15

\* columnWidth as the rational <<n, d>>: HOUR_WIDTH in the day view, the
\* seventh of the timeline in the week view of a measured desktop viewport
\* (at least 1), DATE_CELL_WIDTH otherwise
columnSize(mode, mobile, width) ==
    IF mode = "day" THEN <<HOUR_WIDTH, 1>>
    ELSE IF mode = "week" /\ ~mobile /\ width > 0
    THEN IF width - employeeColumnWidth(width) >= 7
         THEN <<width - employeeColumnWidth(width), 7>>
         ELSE <<1, 1>>
    ELSE <<DATE_CELL_WIDTH, 1>>

\* virtualViewport is the record [width, height, scrollTop, scrollLeft]
bodyStartPx(virtualViewport) == MathMax(virtualViewport.scrollTop - HEADER_HEIGHT, 0)
bodyEndPx(virtualViewport) ==
    bodyStartPx(virtualViewport) + MathMax(virtualViewport.height - HEADER_HEIGHT, 0)
timelineStartPx(virtualViewport) ==
    MathMax(virtualViewport.scrollLeft - employeeColumnWidth(virtualViewport.width), 0)
timelineEndPx(virtualViewport) ==
    timelineStartPx(virtualViewport)
    + MathMax(virtualViewport.width - employeeColumnWidth(virtualViewport.width), 0)

visibleRowRange(virtualViewport) ==
    getVirtualRange(employeesLength, <<ROW_HEIGHT, 1>>, bodyStartPx(virtualViewport),
                    bodyEndPx(virtualViewport), ROW_OVERSCAN)
\* Faulty variant: no column is added around the visible timeline
visibleColumnRangeWithoutOverscan(virtualViewport, mode, mobile, date) ==
    getVirtualRange(columnCount(mode, date),
                    columnSize(mode, mobile, virtualViewport.width),
                    timelineStartPx(virtualViewport), timelineEndPx(virtualViewport), 0)
visibleColumnRange(virtualViewport, mode, mobile, date) ==
    getVirtualRange(columnCount(mode, date),
                    columnSize(mode, mobile, virtualViewport.width),
                    timelineStartPx(virtualViewport), timelineEndPx(virtualViewport),
                    COLUMN_OVERSCAN)
\* visibleRowIndexes, visibleColumnIndexes: Array.from over the range
visibleIndexes(range) ==
    IF range.end < range.start THEN << >>
    ELSE [i \in 1..(range.end - range.start + 1) |-> range.start + i - 1]

\* a render of the desktop grid computes the rows and columns it shows
RenderGrid(virtualViewport, mode, date) ==
    /\ call' = Some([fn |-> "renderGrid", virtualViewport |-> virtualViewport,
                     viewMode |-> mode, selectedDate |-> date,
                     columnSize |-> columnSize(mode, FALSE, virtualViewport.width),
                     visibleRowIndexes |-> visibleIndexes(visibleRowRange(virtualViewport)),
                     visibleColumnIndexes |->
                        visibleIndexes(visibleColumnRange(virtualViewport, mode,
                                                          FALSE, date))])
    /\ UNCHANGED appVars

\* a render formats minutes for a time field, and the field is parsed back
RenderTime(minutes) ==
    /\ call = NULL
    /\ call' = Some([fn |-> "parseTime", minutes |-> minutes,
                     result |-> parseTime(formatTime(minutes))])
    /\ UNCHANGED appVars

\* a minute value is snapped to the grid
RenderSnap(value) ==
    /\ call = NULL
    /\ call' = Some([fn |-> "snapToStep", value |-> value,
                     result |-> snapToStep(value, SNAP_MINUTES)])
    /\ UNCHANGED appVars

\* a render formats a Date as a key, and the key is parsed back
RenderDateKey(date) ==
    /\ call = NULL
    /\ call' = Some([fn |-> "dateToKey", date |-> date,
                     result |-> parseDateKey(dateToKey(date))])
    /\ UNCHANGED appVars

\* the text of a date field is parsed
RenderParseDateKey(value) ==
    /\ call = NULL
    /\ call' = Some([fn |-> "parseDateKey", value |-> value,
                     result |-> parseDateKey(value)])
    /\ UNCHANGED appVars

\* the commit of a render runs the scroll-to-date effect on a viewport
\* scrolled to `left`, with the target `ref`
RunScrollToDate(layout, width, left, ref) ==
    /\ call = NULL
    /\ left <= MathMax(layout.totalGridWidth - width, 0)
    /\ call' = Some([fn |-> "scrollToDate", layout |-> layout, clientWidth |-> width,
                     scrollLeft |-> left, ref |-> ref,
                     result |-> ScrollToDateEffect(
                                    [ref |-> ref, scrollLeft |-> left, scrollTo |-> NULL,
                                     scrollCalls |-> 0, width |-> layout.width],
                                    layout, width)])
    /\ UNCHANGED appVars

\* the pointer-moves of one resize gesture: rs is the state captured at the
\* pointer-down, prev the collection the first move finds, clientXs the
\* pointer positions; before is the collection the last move finds
RunPointerMoves(rs, clientXs, prev) ==
    /\ call = NULL
    /\ call' = Some([fn |-> "onPointerMove", rs |-> rs, clientXs |-> clientXs,
                     prev |-> prev,
                     before |-> PointerMoves(rs, SubSeq(clientXs, 1, Len(clientXs) - 1),
                                             prev),
                     result |-> PointerMoves(rs, clientXs, prev)])
    /\ UNCHANGED appVars

\* the initial load reads the stored value `data`
RunLoad(data) ==
    /\ call = NULL
    /\ call' = Some([fn |-> "loadShiftsFromIndexedDb", data |-> data,
                     result |-> loadShiftsFromIndexedDb(data)])
    /\ UNCHANGED appVars

----------------------------------------------------------------------------
\* Specification

Next ==
    \/ \E c \in CreateInputs : openCreateShiftModal(c[1], c[2], c[3])
    \/ \E shift \in Range(shifts) : openEditShiftModal(shift)
    \/ CancelModal
    \/ \E v \in TitleInputs : ChangeDraftTitle(v)
    \/ \E v \in EmployeeInputs : ChangeDraftEmployee(v)
    \/ \E v \in DateInputs : ChangeDraftDate(v)
    \/ \E v \in StartTimeInputs : ChangeDraftStartTime(v)
    \/ \E v \in EndTimeInputs : ChangeDraftEndTime(v)
    \/ handleSaveShift
    \/ handleDeleteShift
    \/ \E shift \in Range(shifts) : handleDragStart(shift)
    \/ handleDragEnd
    \/ \E c \in DropCells, x \in DropOffsets :
          handleDropOnTimeline(c[1], c[2], x, TimelineWidth)
    \/ \E c \in DropCells : handleDropOnDateCell(c[1], c[2])
    \/ \E shift \in Range(shifts), edge \in Edges, pph \in PixelsPerHour :
          startResize(shift, edge, pph, OriginX)
    \/ \E x \in ClientXs : onPointerMove(x)
    \/ onPointerUp
    \/ LoadResolve
    \/ LoadReject
    \/ \E i \in 1..MaxInflight : SaveComplete(i)
    \/ \E i \in 1..MaxInflight : SaveFail(i)
    \/ Unmount

Spec == Init /\ [][Next]_vars

\* The open and the read of the initial load end in a success or an error event.
FairSpec == Spec /\ WF_vars(LoadResolve \/ LoadReject)

\* The cell lookups of a render, for the collections the component can hold:
\* the first initial shift, shifts edited or dropped into its cell with an
\* equal and with an earlier start, shifts of another employee and of another
\* date, and a shift saved with an empty start time.
CellShifts ==
    { initialShifts[1],
      [id |-> 2, employeeId |-> "e1", dateKey |-> todayKey,
       title |-> <<"D", "e", "n">>, start |-> 9 * 60, end |-> 10 * 60],
      [id |-> 3, employeeId |-> "e1", dateKey |-> todayKey,
       title |-> <<"V", "e", "c", "h", "e", "r">>, start |-> 5 * 60, end |-> 7 * 60],
      [id |-> 4, employeeId |-> "e2", dateKey |-> todayKey,
       title |-> <<"D", "e", "n">>, start |-> 12 * 60, end |-> 18 * 60],
      [id |-> 5, employeeId |-> "e1", dateKey |-> tomorrowKey,
       title |-> <<"U", "t", "r", "o">>, start |-> 60, end |-> 120],
      [id |-> 6, employeeId |-> "e1", dateKey |-> todayKey,
       title |-> translations("ru").newShiftTitle, start |-> NaN, end |-> 10 * 60] }
CellCollections ==
    {collection \in UNION {[1..n -> CellShifts] : n \in 0..MaxCollection} :
        \A i, j \in DOMAIN collection : collection[i] = collection[j] => i = j}
CellDates == {todayKey, tomorrowKey}

CellInit == \E collection \in CellCollections : InitWith(collection)
CellNext == \E employeeId \in employees, dateKey \in CellDates : RenderCell(employeeId, dateKey)
CellSpec == CellInit /\ [][CellNext]_vars

\* The time and date utilities: every minute of the day; whole minute values
\* around zero and the midpoints 7.5, -7.5, 22.5; the days of the years 50,
\* 100, 2023 and 2024 (first, middle and last days of each month); the keys
\* of days that overflow their month and texts whose parts are not numbers.
UtilNext ==
    \/ \E minutes \in 0..MINUTES_IN_DAY : RenderTime(minutes)
    \/ \E value \in {<<v, 1>> : v \in (-MaxSnapValue)..MaxSnapValue}
                      \cup {<<15, 2>>, <<-15, 2>>, <<45, 2>>} : RenderSnap(value)
    \/ \E date \in {50, 100, 2023, 2024} \X (0..11) \X {1, 15, 28, 29, 30, 31} :
          /\ DateOfFields(date[1], date[2], date[3]) = date
          /\ RenderDateKey(date)
    \/ \E date \in {2023, 2024} \X (0..11) \X (29..32) :
          /\ DateOfFields(date[1], date[2], date[3]) # date
          /\ RenderParseDateKey(dateToKey(date))
    \/ \E value \in {<<"a", "b", "c">>,
                      <<"2", "0", "2", "4", "-", "x", "x", "-", "0", "1">>,
                      <<"2", "0", "2", "4", "-", "0", "2", "-">> \o <<"2", "9", "t", "h">>,
                      <<"-", "-">>} : RenderParseDateKey(value)
UtilInit == Init /\ ~store.isArray
UtilSpec == UtilInit /\ [][UtilNext]_vars

\* The virtual ranges of a render: no items, one item, a week of columns and
\* more; rows, fixed columns and a week column of a 1000 px viewport;
\* positions before, at and past the items.
ItemCounts == {-1, 0, 1, 7, 10}
ItemSizes == {<<50, 1>>, <<ROW_HEIGHT, 1>>, <<1000 - EMPLOYEE_COLUMN_WIDTH_DESKTOP, 7>>}
ViewportStarts == {-30, 0, 120, 399}
ViewportEnds == {-1, 0, 320, 400, 1000}
Overscans == {0, 1, COLUMN_OVERSCAN, ROW_OVERSCAN}

RangeNext ==
    \E itemCount \in ItemCounts, itemSize \in ItemSizes, viewportStartPx \in ViewportStarts,
       viewportEndPx \in ViewportEnds, overscan \in Overscans :
        RenderRange(itemCount, itemSize, viewportStartPx, viewportEndPx, overscan)
RangeSpec == Init /\ [][RangeNext]_vars

\* The renders of the desktop grid: each view mode of the month of Today, a
\* viewport not measured yet (0) or of a measured width (one of them not a
\* multiple of a week column) and height (one lower than the header),
\* scrolled by any offset of the lists that the canvas allows.
GridWidths == ViewportWidths \cup {0, 905}
GridHeights == {0, 40, 400, 700}
GridScrollTops == {0, 30, HEADER_HEIGHT, 100, 130, 300, 494, 794, 1154}
GridScrollLefts == {37 * k : k \in 0..110} \cup {180, 748, 3660, 3940}
\* totalGridHeight, and totalGridWidth times d for the column width n / d
totalGridHeight == HEADER_HEIGHT + employeesLength * ROW_HEIGHT
TotalGridWidthTimes(size, mode, width, date) ==
    employeeColumnWidth(width) * size[2] + columnCount(mode, date) * size[1]
GridNext ==
    /\ call = NULL
    /\ \E mode \in ViewModes, width \in GridWidths, height \in GridHeights,
          top \in GridScrollTops, left \in GridScrollLefts :
        /\ top <= MathMax(totalGridHeight - height, 0)
        /\ left * columnSize(mode, FALSE, width)[2]
            <= MathMax(TotalGridWidthTimes(columnSize(mode, FALSE, width), mode,
                                           width, Today)
                        - width * columnSize(mode, FALSE, width)[2], 0)
        /\ RenderGrid([width |-> width, height |-> height, scrollTop |-> top,
                       scrollLeft |-> left], mode, Today)
GridSpec == UtilInit /\ [][GridNext]_vars

\* The date picker, the view mode and the window over a component mounted
\* in any view mode, on mobile or on a desktop of either width, with stored
\* shifts to load; one resize gesture and the teardown go with them.
ViewInit ==
    \E mode \in ViewModes, mobile \in BOOLEAN, width \in ViewportWidths :
        /\ Mounted(initialShifts, mode, mobile, width)
        /\ store.isArray
ViewNext ==
    \/ \E value \in PickerInputs : onDatepickerChange(value)
    \/ \E mode \in ViewModes : handleViewModeChange(mode)
    \/ \E timer \in timers : HighlightTimeout(timer)
    \/ \E width \in ViewportWidths : MediaChange(width)
    \/ \E width \in ViewportWidths : ViewportResize(width)
    \/ ScrollArrives
    \/ startResize(initialShifts[1], "right", <<HOUR_WIDTH, 1>>, OriginX)
    \/ \E x \in ClientXs : onPointerMove(x)
    \/ onPointerUp
    \/ LoadResolve
    \/ LoadReject
    \/ Unmount
ViewSpec == ViewInit /\ [][ViewNext]_vars
\* The window timers run out.
FairViewSpec == ViewSpec /\ WF_vars(\E timer \in timers : HighlightTimeout(timer))

\* The scroll-to-date effect over the layouts of a render: each view mode on
\* mobile and on desktop, a stored width of 0 (not measured) or of a viewport,
\* a viewport of either width, today, tomorrow or Sunday selected, the grid
\* scrolled to its start, by part of a column, by some columns or to its end,
\* and no target, the selected day or a day that is not shown as the target.
ScrollNext ==
    \E mode \in ViewModes, mobile \in BOOLEAN, stored \in ViewportWidths \cup {0},
       width \in ViewportWidths, days \in {0, 1, 3},
       left \in {0, 100, 5 * DATE_CELL_WIDTH, 3610, 3940} :
        \E ref \in {NULL, Some(dateToKey(addDays(Today, days))),
                    Some(dateToKey(addDays(Today, 40)))} :
            RunScrollToDate(Layout(mode, mobile, stored, addDays(Today, days)),
                            width, left, ref)
ScrollSpec == UtilInit /\ [][ScrollNext]_vars

\* The loads of the values the store can hold: a value that is no array (or
\* none), and the arrays of up to MaxStored entries, each a shift written
\* earlier, a second shift, a shift whose times are NaN, an object whose
\* start is a text, an object without an id, or no object at all (null, a
\* number, a text).
StoredItems ==
    { ToStored(StoredShift),
      ToStored(initialShifts[1]),
      ToStored([StoredShift EXCEPT !.id = 102, !.start = NaN, !.end = NaN]),
      [isObject |-> TRUE, types |-> [ShiftTypes EXCEPT !.start = "string"],
       value |-> [StoredShift EXCEPT !.id = 103]],
      [isObject |-> TRUE, types |-> [ShiftTypes EXCEPT !.id = "undefined"],
       value |-> [StoredShift EXCEPT !.id = 104]],
      [isObject |-> FALSE, types |-> [f \in DOMAIN ShiftTypes |-> "undefined"],
       value |-> [StoredShift EXCEPT !.id = 105]] }
LoadNext ==
    \/ RunLoad([isArray |-> FALSE, items |-> << >>])
    \/ \E n \in 0..MaxStored : \E items \in [1..n -> StoredItems] :
          RunLoad([isArray |-> TRUE, items |-> items])
LoadSpec == UtilInit /\ [][LoadNext]_vars

\* The pointer-moves of a resize gesture.  The collection holds the initial
\* shifts and a shift created from a draft whose start time was emptied
\* (its start is NaN).  The pointer went down on either edge of one of them,
\* in the day view or in a date cell; since then the collection is as it
\* was, or the shift was edited to end at midnight, dropped on the last hour
\* of another row, dropped on a date cell, or deleted (the listeners stay
\* attached until a pointer-up reaches the window).  The pointer makes one
\* or two moves, among them the way back to where it went down.
ResizableShifts ==
    Append(initialShifts,
           [id |-> 4, employeeId |-> "e1", dateKey |-> todayKey,
            title |-> translations("ru").newShiftTitle,
            start |-> NaN, end |-> DEFAULT_SHIFT_START + 4 * 60])
ResizeStates ==
    {[shiftId |-> shift.id, edge |-> edge, originX |-> OriginX,
      originStart |-> shift.start, originEnd |-> shift.end, pixelsPerHour |-> pph] :
        shift \in Range(ResizableShifts), edge \in Edges, pph \in PixelsPerHour}
\* start and end of a shift dropped on the last hour of a day timeline
DroppedOnLastHour(shift, duration, nextStart) ==
    [shift EXCEPT !.employeeId = "e2", !.dateKey = tomorrowKey,
                  !.start = nextStart, !.end = Plus(nextStart, duration)]
ChangedSince(i) ==
    { ResizableShifts,
      [ResizableShifts EXCEPT ![i].end = MINUTES_IN_DAY],
      [ResizableShifts EXCEPT
          ![i] = DroppedOnLastHour(@, Minus(@.end, @.start),
                                   clamp((HOURS_LENGTH - 1) * 60, 0,
                                         Minus(MINUTES_IN_DAY, Minus(@.end, @.start))))],
      [ResizableShifts EXCEPT ![i].employeeId = "e2", ![i].dateKey = tomorrowKey],
      Remove(ResizableShifts, i) }
MoveXs == ClientXs \cup {OriginX, OriginX + HOUR_WIDTH}
MoveNext ==
    /\ call = NULL
    /\ \E rs \in ResizeStates, i \in 1..Len(ResizableShifts) :
          /\ ResizableShifts[i].id = rs.shiftId
          /\ \E prev \in ChangedSince(i),
                clientXs \in {<<x>> : x \in MoveXs} \cup (MoveXs \X MoveXs) :
                RunPointerMoves(rs, clientXs, prev)
MoveSpec == UtilInit /\ [][MoveNext]_vars

\* The edit form over a component that holds one shift of the data model:
\* start and end on the 15-minute grid, 0 <= start < end <= 1440, at least
\* 30 minutes long.  The form is opened on the shift and submitted as it is.
GridMinutes == {SNAP_MINUTES * k : k \in 0..(MINUTES_IN_DAY \div SNAP_MINUTES)}
ValidShifts ==
    {shift \in {[initialShifts[1] EXCEPT !.start = start, !.end = end] :
                    start \in GridMinutes, end \in GridMinutes} :
        shift.end - shift.start >= MIN_SHIFT_MINUTES}
EditInit ==
    \E shift \in ValidShifts :
        /\ InitWith(<<shift>>)
        /\ ~store.isArray
EditNext ==
    \/ \E shift \in Range(shifts) : openEditShiftModal(shift)
    \/ handleSaveShift
    \/ CancelModal
    \/ LoadResolve
EditSpec == EditInit /\ [][EditNext]_vars

\* The language picker and the shift form over a component mounted in either
\* language: the language is changed (also to a value that is no language),
\* a create or an edit draft is opened, its title is left as it is, blanked,
\* or changed to a text with or without blanks around it, and it is saved.
LanguageInputs == LanguageIds \cup {"de"}
LanguageTitleInputs == TitleInputs \cup {<<"N", "i", "g", "h", "t">>}
LanguageInit ==
    \E language \in LanguageIds :
        /\ MountedIn(language, initialShifts, "day", FALSE, 1160)
        /\ ~store.isArray
LanguageNext ==
    \/ \E language \in LanguageInputs : onLanguageChange(language)
    \/ \E c \in CreateInputs : openCreateShiftModal(c[1], c[2], c[3])
    \/ \E shift \in Range(shifts) : openEditShiftModal(shift)
    \/ \E v \in LanguageTitleInputs : ChangeDraftTitle(v)
    \/ handleSaveShift
    \/ handleDeleteShift
    \/ LoadResolve
LanguageSpec == LanguageInit /\ [][LanguageNext]_vars

----------------------------------------------------------------------------
\* Properties

\* 0 <= start < end <= 1440 and end - start >= 30
InRange(shift) ==
    /\ shift.start # NaN
    /\ shift.end # NaN
    /\ 0 <= shift.start
    /\ shift.start < shift.end
    /\ shift.end <= MINUTES_IN_DAY
    /\ shift.end - shift.start >= MIN_SHIFT_MINUTES

\* x is a multiple of 15
IsSnapped(x) == x # NaN /\ x % SNAP_MINUTES = 0

\* the shift records a step puts into the collection
Written == Range(shifts') \ Range(shifts)

\* C1: as long as the initial load is pending no save has been issued (none
\* is in flight, none has settled, the stored value is untouched), whatever
\* mutations of the collection have happened meanwhile.
C1_NoSaveBeforeLoadSettles ==
    loadState = "pending" =>
        /\ inflight = << >>
        /\ ~saveFailed
        /\ store \in InitialStores

\* C1 case: the collection was mutated while the load was still pending
C1_MutatedWhilePending == loadState = "pending" /\ shifts # initialShifts

\* C2: from the valid initial (or valid loaded) collection, every shift keeps
\* 0 <= start < end <= 1440 and end - start >= 30 after any sequence of
\* create, edit-save, delete, drop and resize operations.
C2_RangePreserved == \A i \in 1..Len(shifts) : InRange(shifts[i])

\* C2 case: a shift of the initial collection was edited and saved with a
\* start that is not a number
C2_EditedShiftOutOfRange ==
    \E i \in 1..Len(shifts) : shifts[i].id \in 1..3 /\ shifts[i].start = NaN

C4_MutationsWriteSnapped ==
    [][(\/ handleSaveShift
        \/ \E x \in ClientXs : onPointerMove(x)
        \/ \E c \in DropCells, x \in DropOffsets :
              handleDropOnTimeline(c[1], c[2], x, TimelineWidth)) =>
          \A shift \in Written : IsSnapped(shift.start) /\ IsSnapped(shift.end)]_vars

\* C4 case: a loaded shift was resized or dropped on a timeline and holds a
\* value off the 15-minute grid
C4_LoadedShiftOffGrid ==
    \E i \in 1..Len(shifts) :
        /\ shifts[i].id = StoredShift.id
        /\ <<shifts[i].start, shifts[i].end>> # <<StoredShift.start, StoredShift.end>>
        /\ ~(IsSnapped(shifts[i].start) /\ IsSnapped(shifts[i].end))

\* C5: once every issued save has completed (none in flight, none failed),
\* the stored collection is the current in-memory collection.
C5_PersistedIsLatest ==
    (isStorageReady /\ inflight = << >> /\ ~saveFailed) =>
        store = [isArray |-> TRUE, items |-> MapSeq(ToStored, shifts)]

\* C6: once storage is ready, a step that changes the collection issues one
\* save whose argument is the collection right after the step.
C6_MutationIssuesSave ==
    [][(isStorageReady /\ shifts' # shifts) => inflight' = Append(inflight, shifts')]_vars

\* C6 case: a mutation after storage became ready has its save in flight
\* behind an earlier one
C6_SaveOfMutationInFlight ==
    /\ isStorageReady
    /\ Len(inflight) = 2
    /\ inflight[2] = shifts
    /\ inflight[1] # inflight[2]

\* C7: the ready flag starts false, turns true only in the step that settles
\* the load, does so on success and on failure of a mounted component, is
\* never reset, and is eventually true unless the component is torn down.
C7_ReadyOnceOnSettle ==
    /\ ~isStorageReady
    /\ [][/\ isStorageReady => isStorageReady'
          /\ (~isStorageReady /\ isStorageReady') =>
                (loadState = "pending" /\ loadState' \in {"resolved", "rejected"})
          /\ (mounted /\ loadState = "pending" /\ loadState' # "pending") =>
                isStorageReady']_vars
    /\ <>(isStorageReady \/ ~mounted)

\* C7 case: the load resolved and gestures were handled with the flag set
C7_ReadyAfterResolve == isStorageReady /\ loadState = "resolved" /\ gestures > 0

\* C8: the step in which the load fails leaves the collection, the error
\* message and the draft as they were, and on a mounted component marks
\* storage ready and issues a save of the in-memory collection.
C8_LoadFailureKeepsData ==
    [][(loadState = "pending" /\ loadState' = "rejected") =>
          /\ shifts' = shifts
          /\ error' = error
          /\ modalDraft' = modalDraft
          /\ mounted => (isStorageReady' /\ inflight' = Append(inflight, shifts))]_vars

\* C8 case: the load failed after the collection had been edited, and the
\* save of the edited collection is in flight
C8_ReadyAfterFailure ==
    /\ loadState = "rejected"
    /\ isStorageReady
    /\ shifts # initialShifts
    /\ inflight = <<shifts>>

\* the draft is rejected: its date key or one of its times does not parse,
\* or the snapped end is <= the snapped start, or the snapped duration is < 30
C9_Rejects(parsedDate, start, end) ==
    \/ parsedDate = NULL
    \/ start = NULL
    \/ end = NULL
    \/ Le(snapToStep(end, SNAP_MINUTES), snapToStep(start, SNAP_MINUTES))
    \/ Lt(Minus(snapToStep(end, SNAP_MINUTES), snapToStep(start, SNAP_MINUTES)),
          MIN_SHIFT_MINUTES)
C9_FailsValidation(draft) ==
    C9_Rejects(parseDateKey(draft.dateKey), parseTime(draft.startTime),
               parseTime(draft.endTime))

C10_CreateAppendsValidShift ==
    [][(/\ handleSaveShift
        /\ modalDraft[1].mode = "create"
        /\ ValidationError(modalDraft[1]) = NULL) =>
          /\ Len(shifts') = Len(shifts) + 1
          /\ SubSeq(shifts', 1, Len(shifts)) = shifts
          /\ IsSnapped(shifts'[Len(shifts')].start)
          /\ IsSnapped(shifts'[Len(shifts')].end)
          /\ InRange(shifts'[Len(shifts')])]_vars

\* C10 case: a create draft with an empty start time was accepted and its
\* shift appended
C10_CreatedShiftNotANumber ==
    /\ Len(shifts) > 0
    /\ shifts[Len(shifts)].id >= 4
    /\ shifts[Len(shifts)].start = NaN

----------------------------------------------------------------------------
\* Edit and delete

\* a submit of an edit draft that passes validation
C11_EditStep ==
    /\ handleSaveShift
    /\ modalDraft[1].mode = "edit"
    /\ modalDraft[1].shiftId # NULL
    /\ ValidationError(modalDraft[1]) = NULL

\* the shift an edit draft turns `shift` into, given the title it stores
C11_Edited(shift, draft, title) ==
    [id |-> shift.id, employeeId |-> draft.employeeId, dateKey |-> draft.dateKey,
     title |-> title,
     start |-> snapToStep(parseTime(draft.startTime), SNAP_MINUTES),
     end |-> snapToStep(parseTime(draft.endTime), SNAP_MINUTES)]

\* the collection after the edit: same size and order, the draft's shift
\* replaced in place, every other shift unchanged
C11_ReplacedInPlace(draft, title) ==
    /\ Len(shifts') = Len(shifts)
    /\ \A i \in 1..Len(shifts) :
          shifts'[i] = IF Some(shifts[i].id) = draft.shiftId
                       THEN C11_Edited(shifts[i], draft, title)
                       ELSE shifts[i]

C12_DeleteOnlyFromEdit ==
    [][handleDeleteShift =>
          /\ modalDraft # NULL
          /\ modalDraft[1].mode = "edit"
          /\ shifts' = SelectSeq(shifts,
                                 LAMBDA shift : Some(shift.id) # modalDraft[1].shiftId)
          /\ modalDraft' = NULL
          /\ error' = NULL]_vars

\* C12 case: a shift of the initial collection was deleted and the draft closed
C12_InitialShiftDeleted ==
    /\ loadState = "pending"
    /\ modalDraft = NULL
    /\ Len(shifts) = Len(initialShifts) - 1

----------------------------------------------------------------------------
\* Resize and drag

\* the multiple of 15 nearest to n / d minutes (d > 0), the upper one on a tie
C13_Snap(n, d) ==
    CHOOSE m \in {SNAP_MINUTES * (n \div (SNAP_MINUTES * d) + k) : k \in 0..1} :
        /\ 2 * m * d - SNAP_MINUTES * d <= 2 * n
        /\ 2 * n < 2 * m * d + SNAP_MINUTES * d

\* value limited to [lo, hi], the upper limit winning when lo > hi
C13_Clamp(value, lo, hi) ==
    IF value = NaN \/ lo = NaN \/ hi = NaN THEN NaN
    ELSE IF value > hi \/ lo > hi THEN hi
    ELSE IF value < lo THEN lo
    ELSE value

\* start and end the claim gives the resized shift for a pointer at currentX
C13_Expected(rs, currentX, deltaMinutes) ==
    IF rs.edge = "left"
    THEN <<C13_Clamp(Plus(rs.originStart, deltaMinutes), 0,
                     Minus(rs.originEnd, MIN_SHIFT_MINUTES)),
           rs.originEnd>>
    ELSE <<rs.originStart,
           C13_Clamp(Plus(rs.originEnd, deltaMinutes),
                     Plus(rs.originStart, MIN_SHIFT_MINUTES), MINUTES_IN_DAY)>>

\* C13: a pointer-move at currentX gives the resized shift, with deltaMinutes
\* = snap((currentX - originX) / pixelsPerHour * 60), start = clamp(originStart
\* + deltaMinutes, 0, originEnd - 30) on the left edge and end = clamp(originEnd
\* + deltaMinutes, originStart + 30, 1440) on the right edge, the other end
\* being the origin's.
C13_ResizeFormula ==
    [][\A x \in ClientXs :
          onPointerMove(x) =>
              \A i \in 1..Len(shifts) :
                  shifts[i].id = resizeState[1].shiftId =>
                      <<shifts'[i].start, shifts'[i].end>> =
                          C13_Expected(resizeState[1], x,
                              C13_Snap((x - resizeState[1].originX) * 60
                                           * resizeState[1].pixelsPerHour[2],
                                       resizeState[1].pixelsPerHour[1]))]_vars

\* C13 case: the right edge of the 540-780 shift was dragged by the pixels of
\* +30 minutes and the shift is 540-810
C13_RightEdgePlus30 ==
    /\ resizeState # NULL
    /\ resizeState[1].edge = "right"
    /\ resizeState[1].originStart = 540
    /\ resizeState[1].originEnd = 780
    /\ resizeState[1].pixelsPerHour = <<HOUR_WIDTH, 1>>
    /\ \E i \in 1..Len(shifts) :
          /\ shifts[i].id = resizeState[1].shiftId
          /\ shifts[i].start = 540
          /\ shifts[i].end = 810


\* a resize is active: its state is set, or the pointer went down on a handle
C14_ResizeActive == resizeState # NULL \/ resizingRef

\* C14: while a resize is active no drag starts: no step sets a drag payload or
\* a dragging shift id, and no state has both a resize state and a dragging
\* shift id.
C14_NoDragWhileResizing ==
    /\ [](~(resizeState # NULL /\ draggingShiftId # NULL))
    /\ [][C14_ResizeActive =>
            /\ ~(\E shift \in Range(shifts) : handleDragStart(shift))
            /\ dataTransfer' \in {dataTransfer, NULL}
            /\ draggingShiftId' = NULL]_vars

\* C14 case: a resize is active on a mounted component with no drag under way,
\* and a further gesture (a drag-start) can still arrive
C14_ResizingNoDrag ==
    /\ resizeState # NULL
    /\ resizingRef
    /\ mounted
    /\ gestures < MaxGestures
    /\ dataTransfer = NULL
    /\ draggingShiftId = NULL


\* C15: the state right after a resize pointer-up, with no new pointer-down,
\* accepts no drag-start: a drag-start arriving then sets no drag payload and
\* no dragging shift id.
C15_NoDragRightAfterResize ==
    [][(onPointerUp /\ gestures' < MaxGestures) =>
          ~(\E shift \in Range(shifts) : (ENABLED handleDragStart(shift))')]_vars


\* C16: the resize state exists exactly from a pointer-down on a handle to the
\* next pointer-up. While the component is mounted the window listeners are
\* attached and text selection is off exactly when the resize state is set;
\* only a pointer-down on a handle sets it and only a pointer-up clears it;
\* pointer-up leaves it null with listeners detached, selection restored and
\* every shift as the last pointer-move left it; with no resize state a
\* pointer-move changes nothing.
C16_ResizeLifetime ==
    /\ [](mounted => /\ pointerListeners <=> resizeState # NULL
                     /\ userSelect = "none" <=> resizeState # NULL)
    /\ [][/\ onPointerUp =>
                /\ resizeState' = NULL
                /\ ~pointerListeners'
                /\ userSelect' = ""
                /\ shifts' = shifts
          /\ (resizeState' # resizeState /\ resizeState' # NULL) =>
                \E shift \in Range(shifts), edge \in Edges, pph \in PixelsPerHour :
                    startResize(shift, edge, pph, OriginX)
          /\ (resizeState # NULL /\ resizeState' = NULL) => onPointerUp
          /\ resizeState = NULL => ~(\E x \in ClientXs : onPointerMove(x))]_vars

\* C16 case: the right edge of shift 1 was dragged to 810 and released; the
\* resize is over and the resized times stand
C16_ReleasedAfterResize ==
    /\ mounted
    /\ resizeState = NULL
    /\ ~pointerListeners
    /\ userSelect = ""
    /\ modalDraft = NULL
    /\ \E i \in 1..Len(shifts) :
          shifts[i].id = 1 /\ shifts[i].start = 540 /\ shifts[i].end = 810


\* the hour cell holding pixel x >= 0 of a timeline, the last cell at most
C17_HourIndex(x) ==
    CHOOSE h \in 0..(HOURS_LENGTH - 1) :
        \/ h * HOUR_WIDTH <= x /\ x < (h + 1) * HOUR_WIDTH
        \/ h = HOURS_LENGTH - 1 /\ x >= HOURS_LENGTH * HOUR_WIDTH

\* the shift the claim gives for a drop of `shift` at hour cell hourIndex
C17_Dropped(shift, employeeId, dateKey, start, duration) ==
    [id |-> shift.id, title |-> shift.title,
     employeeId |-> employeeId, dateKey |-> dateKey,
     start |-> start, end |-> Plus(start, duration)]

\* C17: a drop on a day timeline at clamped offset x gives the dragged shift
\* start = clamp(floor(x / hourWidth) * 60, 0, 1440 - duration), end = start +
\* duration and the target's employeeId and dateKey; a shift that was inside
\* [0, 1440] keeps its duration and stays inside.
C17_TimelineDrop ==
    [][\A c \in DropCells, offsetX \in DropOffsets :
          handleDropOnTimeline(c[1], c[2], offsetX, TimelineWidth) =>
              \A i \in 1..Len(shifts) :
                  Some(shifts[i].id) = dataTransfer =>
                      /\ shifts'[i] =
                             C17_Dropped(shifts[i], c[1], c[2],
                                 C13_Clamp(C17_HourIndex(C13_Clamp(offsetX, 0, TimelineWidth - 1)) * 60,
                                           0,
                                           Minus(MINUTES_IN_DAY,
                                                 Minus(shifts[i].end, shifts[i].start))),
                                 Minus(shifts[i].end, shifts[i].start))
                      /\ InRange(shifts[i]) =>
                             /\ InRange(shifts'[i])
                             /\ shifts'[i].end - shifts'[i].start
                                    = shifts[i].end - shifts[i].start]_vars

\* C17 case: the 540-780 shift was dropped on the last hour of another
\* employee's timeline and was moved back to 1200-1440 to fit
C17_DroppedOnLastHour ==
    \E i \in 1..Len(shifts) :
        /\ shifts[i].id = 1
        /\ shifts[i].employeeId = "e2"
        /\ shifts[i].dateKey = tomorrowKey
        /\ shifts[i].start = 1200
        /\ shifts[i].end = 1440


\* C18: a drop on a date cell changes only the dragged shift's employeeId and
\* dateKey, to the cell's: its id, title, start and end, every other shift and
\* the size and order of the collection stay as they were.
C18_DateCellDrop ==
    [][\A c \in DropCells :
          handleDropOnDateCell(c[1], c[2]) =>
              /\ Len(shifts') = Len(shifts)
              /\ \A i \in 1..Len(shifts) :
                    IF Some(shifts[i].id) = dataTransfer
                    THEN /\ shifts'[i].employeeId = c[1]
                         /\ shifts'[i].dateKey = c[2]
                         /\ shifts'[i].id = shifts[i].id
                         /\ shifts'[i].title = shifts[i].title
                         /\ shifts'[i].start = shifts[i].start
                         /\ shifts'[i].end = shifts[i].end
                    ELSE shifts'[i] = shifts[i]]_vars

\* C18 case: the 540-780 shift of e1 was dropped on a date cell of e2 and has
\* its times still
C18_DroppedOnDateCell ==
    /\ dataTransfer = NULL
    /\ draggingShiftId = NULL
    /\ \E i \in 1..Len(shifts) :
          /\ shifts[i].id = 1
          /\ shifts[i].employeeId = "e2"
          /\ shifts[i].dateKey = tomorrowKey
          /\ shifts[i].start = 540
          /\ shifts[i].end = 780


----------------------------------------------------------------------------
\* Cell index and virtual range

\* the place of shift in the collection
C19_Position(shift) == CHOOSE k \in 1..Len(shifts) : shifts[k] = shift

\* C19: a cell lookup returns exactly the shifts of the collection with the
\* cell's employeeId and dateKey, each once, no shift with a smaller start
\* behind one with a greater start, shifts of equal start in collection order;
\* it is the empty sequence when the cell has no shift.
C19_CellLookup ==
    call # NULL =>
        /\ DOMAIN call[1].result = 1..Len(call[1].result)
        /\ \A i \in DOMAIN call[1].result :
              /\ call[1].result[i] \in Range(shifts)
              /\ call[1].result[i].employeeId = call[1].employeeId
              /\ call[1].result[i].dateKey = call[1].dateKey
        /\ \A shift \in Range(shifts) :
              (shift.employeeId = call[1].employeeId /\ shift.dateKey = call[1].dateKey)
                  => Cardinality({i \in DOMAIN call[1].result :
                                     call[1].result[i] = shift}) = 1
        /\ \A i, j \in DOMAIN call[1].result :
              i < j =>
                  /\ ~Lt(call[1].result[j].start, call[1].result[i].start)
                  /\ call[1].result[i].start = call[1].result[j].start
                         => C19_Position(call[1].result[i]) < C19_Position(call[1].result[j])


\* the whole q >= 0 with q <= x / size < q + 1, for x >= 0 and size >= 1
C20_Floor(x, size) ==
    CHOOSE q \in 0..x : q * size[1] <= x * size[2] /\ x * size[2] < (q + 1) * size[1]
\* the whole q >= 0 with q - 1 < x / size <= q
C20_Ceil(x, size) ==
    CHOOSE q \in 0..x : (q - 1) * size[1] < x * size[2] /\ x * size[2] <= q * size[1]
C20_Max0(x) == IF x < 0 THEN 0 ELSE x

\* C20: the virtual range is empty (end < start) when itemCount <= 0, else its
\* start is clamp(floor(max(viewportStartPx, 0) / itemSize) - overscan, 0,
\* itemCount - 1) and its end is clamp(ceil(max(viewportEndPx, 0) / itemSize) +
\* overscan, 0, itemCount - 1).
C20_VirtualRange ==
    call # NULL =>
        IF call[1].itemCount <= 0
        THEN call[1].result.end < call[1].result.start
        ELSE /\ call[1].result.start =
                    C13_Clamp(C20_Floor(C20_Max0(call[1].viewportStartPx), call[1].itemSize)
                                  - call[1].overscan,
                              0, call[1].itemCount - 1)
             /\ call[1].result.end =
                    C13_Clamp(C20_Ceil(C20_Max0(call[1].viewportEndPx), call[1].itemSize)
                                  + call[1].overscan,
                              0, call[1].itemCount - 1)

\* C20 case: 10 items of 50 px, the viewport 120..320 and overscan 1 give the
\* range 1..8
C20_Example ==
    /\ call # NULL
    /\ call[1].itemCount = 10
    /\ call[1].itemSize = <<50, 1>>
    /\ call[1].viewportStartPx = 120
    /\ call[1].viewportEndPx = 320
    /\ call[1].overscan = 1
    /\ call[1].result = [start |-> 1, end |-> 8]


\* the call was made for a viewport that has not been measured
C21_ZeroViewport ==
    call # NULL /\ call[1].viewportStartPx = 0 /\ call[1].viewportEndPx = 0

\* C21: for a zero-size viewport and any itemCount the virtual range is empty
\* (end < start).
C21_ZeroViewportEmpty ==
    C21_ZeroViewport => call[1].result.end < call[1].result.start

\* C21, amended: for a zero-size viewport the virtual range is empty when
\* itemCount <= 0 and otherwise runs from item 0 to item min(overscan,
\* itemCount - 1).
C21_ZeroViewportOverscan ==
    C21_ZeroViewport =>
        IF call[1].itemCount <= 0
        THEN call[1].result.end < call[1].result.start
        ELSE /\ call[1].result.start = 0
             /\ call[1].result.end = IF call[1].overscan < call[1].itemCount - 1
                                     THEN call[1].overscan
                                     ELSE call[1].itemCount - 1

\* C21 case: 10 rows, a viewport not yet measured and overscan 4 give rows 0..4
C21_UnmeasuredRows ==
    /\ C21_ZeroViewport
    /\ call[1].itemCount = 10
    /\ call[1].itemSize = <<ROW_HEIGHT, 1>>
    /\ call[1].overscan = ROW_OVERSCAN
    /\ call[1].result = [start |-> 0, end |-> 4]


----------------------------------------------------------------------------
\* Time and date utilities

\* C22: for every integer m in [0, 1440], parseTime(formatTime(m)) is
\* clamp(m, 0, 1440), the end of the day 1440 included.
C22_TimeRoundTrip ==
    (call # NULL /\ call[1].fn = "parseTime") =>
        call[1].result = <<C13_Clamp(call[1].minutes, 0, MINUTES_IN_DAY), 1>>


\* C23: for every whole minute value v, negative ones included, snapToStep(v)
\* is a multiple of 15 at most 7 away from v; the midpoint 7.5 goes up to 15.
C23_SnapNearest ==
    (call # NULL /\ call[1].fn = "snapToStep") =>
        /\ call[1].value[2] = 1 =>
              /\ call[1].result % 15 = 0
              /\ call[1].result - call[1].value[1] <= 7
              /\ call[1].value[1] - call[1].result <= 7
        /\ call[1].value = <<15, 2>> => call[1].result = 15

\* C23 case: -8 was snapped to -15, 7 away and a multiple of 15
C23_NegativeSnapped ==
    /\ call # NULL
    /\ call[1].fn = "snapToStep"
    /\ call[1].value = <<-8, 1>>
    /\ call[1].result = -15


\* C24: parseDateKey(dateToKey(d)) is d for every calendar date d, and
\* parseDateKey is null for a key whose day overflows its month and for a text
\* whose parts are not numbers.
C24_DateKeyRoundTrip ==
    call # NULL =>
        /\ call[1].fn = "dateToKey" => call[1].result = call[1].date
        /\ call[1].fn = "parseDateKey" => call[1].result = NULL

\* C24, amended: parseDateKey(dateToKey(d)) is d for every calendar date d of
\* the year 100 or a later year, and parseDateKey is null for a key whose day
\* overflows its month and for a text whose parts are not numbers.
C24_DateKeyRoundTripFrom100 ==
    call # NULL =>
        /\ (call[1].fn = "dateToKey" /\ call[1].date[1] >= 100)
              => call[1].result = call[1].date
        /\ call[1].fn = "parseDateKey" => call[1].result = NULL

\* C24 case: the leap day 2024-02-29 was formatted and parsed back
C24_LeapDayParsed ==
    /\ call # NULL
    /\ call[1].fn = "dateToKey"
    /\ call[1].date = <<2024, 1, 29>>
    /\ call[1].result = <<2024, 1, 29>>


\* a date-picker change or a switch into the week or month view, handled on
\* a desktop layout that shows date columns
C25_Trigger ==
    /\ ~isMobile
    /\ \/ /\ viewMode \in {"week", "month"}
          /\ \E value \in PickerInputs : onDatepickerChange(value)
       \/ \E mode \in {"week", "month"} : handleViewModeChange(mode)
C26_HighlightWhilePending ==
    /\ [](mounted => (highlightedColumnDateKey # NULL <=> timers # {}))
    /\ [][((\E timer \in timers : HighlightTimeout(timer)) /\ mounted) =>
            /\ highlightedColumnDateKey' = NULL
            /\ highlightTimerRef' = NULL
            /\ timers' = {}]_vars
    /\ (highlightedColumnDateKey # NULL) ~> (highlightedColumnDateKey = NULL \/ ~mounted)
\* the highlight of a date-picker change in the month view has run out
C26_HighlightExpired ==
    /\ mounted
    /\ viewMode = "month"
    /\ selectedDate = addDays(Today, 1)
    /\ nextTimer = 2
    /\ timers = {}
    /\ highlightedColumnDateKey = NULL
    /\ highlightTimerRef = NULL


\* C27: on a mobile layout a date-picker change or a view-mode change sets
\* no highlighted column, starts no highlight timer and requests no scroll
\* of the grid viewport.
C27_MobileSuppressed ==
    [][(/\ isMobile
        /\ \/ \E value \in PickerInputs : onDatepickerChange(value)
           \/ \E mode \in ViewModes : handleViewModeChange(mode)) =>
            UNCHANGED <<highlightedColumnDateKey, highlightTimerRef, timers, nextTimer,
                        scrollTo, scrollCalls, scrollLeft>>]_vars
\* on mobile the date picker was changed and the month view chosen: no
\* highlight, no timer and no scroll so far
C27_ChangedOnMobile ==
    /\ isMobile
    /\ gestures = 2
    /\ viewMode = "month"
    /\ selectedDate = addDays(Today, 1)
    /\ highlightedColumnDateKey = NULL
    /\ timers = {}
    /\ nextTimer = 1
    /\ scrollCalls = 0


\* the dates of the columns of the layout the effect ran for
C28_Dates == visibleDates(call[1].layout.viewMode, call[1].layout.selectedDate)
\* the scroll-to-date effect ran for a target on a desktop layout in the
\* week or month view
C28_Handled ==
    /\ call # NULL
    /\ call[1].fn = "scrollToDate"
    /\ ~call[1].layout.isMobile
    /\ call[1].layout.viewMode \in {"week", "month"}
    /\ call[1].ref # NULL
    /\ \E i \in 1..Len(C28_Dates) : dateToKey(C28_Dates[i]) = call[1].ref[1]
\* twice the offset that puts the middle of the column of width targetWidth
\* at targetColumnLeft in the middle of a span timelineWidth wide
C28_TwiceCentred(targetColumnLeft, targetWidth, timelineWidth) ==
    2 * targetColumnLeft + targetWidth - timelineWidth
\* the result for the column at targetColumnLeft, the visible timeline span
\* being timelineWidth wide and the largest scroll offset maxScrollLeft
C28_Request(c, targetColumnLeft, timelineWidth, maxScrollLeft) ==
    IF /\ targetColumnLeft >= c.scrollLeft
       /\ targetColumnLeft + c.layout.columnWidth <= c.scrollLeft + timelineWidth
    THEN c.result.scrollCalls = 0 /\ c.result.scrollTo = NULL
    ELSE /\ c.result.scrollCalls = 1
         /\ c.result.scrollTo # NULL
         /\ c.result.scrollTo[1] >= 0
         /\ c.result.scrollTo[1] <= maxScrollLeft
         /\ \/ 2 * c.result.scrollTo[1]
                = C28_TwiceCentred(targetColumnLeft, c.layout.columnWidth, timelineWidth)
            \/ /\ c.result.scrollTo[1] = 0
               /\ C28_TwiceCentred(targetColumnLeft, c.layout.columnWidth,
                                   timelineWidth) < 0
            \/ /\ c.result.scrollTo[1] = maxScrollLeft
               /\ C28_TwiceCentred(targetColumnLeft, c.layout.columnWidth,
                                   timelineWidth) > 2 * maxScrollLeft
\* C28: when the effect handles a target in week or month mode on desktop,
\* no scroll is requested if the span of the target column lies inside the
\* visible timeline span; otherwise exactly one smooth scroll is requested,
\* to the offset that centres the column, clamped to [0, maxScrollLeft].
C28_ScrollRequest ==
    C28_Handled =>
        C28_Request(call[1],
                    ((CHOOSE i \in 1..Len(C28_Dates) :
                        dateToKey(C28_Dates[i]) = call[1].ref[1]) - 1)
                        * call[1].layout.columnWidth,
                    IF call[1].clientWidth - call[1].layout.employeeColumnWidth
                        >= call[1].layout.columnWidth
                    THEN call[1].clientWidth - call[1].layout.employeeColumnWidth
                    ELSE call[1].layout.columnWidth,
                    IF call[1].layout.totalGridWidth >= call[1].clientWidth
                    THEN call[1].layout.totalGridWidth - call[1].clientWidth
                    ELSE 0)
\* the last day of February is the target in a month view at its start: the
\* scroll goes to the largest offset
C28_ScrolledToMonthEnd ==
    /\ C28_Handled
    /\ call[1].layout.viewMode = "month"
    /\ call[1].ref = Some(todayKey)
    /\ call[1].scrollLeft = 0
    /\ call[1].clientWidth = 1160
    /\ call[1].result.scrollCalls = 1
    /\ call[1].result.scrollTo = Some(call[1].layout.totalGridWidth - 1160)
\* a target column inside the visible span asks for no scroll
C28_ColumnInView ==
    /\ C28_Handled
    /\ call[1].layout.viewMode = "month"
    /\ call[1].scrollLeft = 100
    /\ call[1].result.scrollCalls = 0


\* C29: once the component is torn down no highlight timer is pending, no
\* window pointer listener and no viewport scroll listener or resize
\* observer is attached, and from the teardown on no step changes the shift
\* collection or the ready flag: a resize in progress leaves the start and
\* end it applied last, and a load that settles afterwards changes nothing.
C29_NothingLiveAfterTeardown ==
    /\ [](~mounted => (timers = {} /\ ~pointerListeners /\ ~viewportObserved))
    /\ [][~mounted' => UNCHANGED <<shifts, isStorageReady>>]_vars
\* torn down in the middle of a resize that moved the end of the first
\* shift, with a highlight set, and the load resolved afterwards
C29_TornDownWhileResizing ==
    /\ ~mounted
    /\ resizeState # NULL
    /\ highlightedColumnDateKey # NULL
    /\ highlightTimerRef # NULL
    /\ loadState = "resolved"
    /\ ~isStorageReady
    /\ shifts[1].end # initialShifts[1].end


\* an entry that is an object with text id, employeeId, dateKey, title and
\* numeric start, end
C30_WellFormed(entry) ==
    /\ entry.isObject
    /\ entry.types.id = "string"
    /\ entry.types.employeeId = "string"
    /\ entry.types.dateKey = "string"
    /\ entry.types.title = "string"
    /\ entry.types.start = "number"
    /\ entry.types.end = "number"
\* the k-th of the positions in `kept`
C30_Nth(kept, k) == CHOOSE i \in kept : Cardinality({j \in kept : j < i}) = k - 1
\* `loaded` holds, in stored order, exactly the entries of `items` at the
\* positions in `kept`
C30_Exactly(loaded, items, kept) ==
    /\ Len(loaded) = Cardinality(kept)
    /\ \A k \in 1..Len(loaded) : loaded[k] = items[C30_Nth(kept, k)].value
\* C30: the load returns null when the stored value is no sequence;
\* otherwise it returns, in stored order, exactly the well-formed entries: a
\* malformed entry is dropped, the load does not fail and no well-formed
\* entry is dropped.
C30_LoadFilters ==
    (call # NULL /\ call[1].fn = "loadShiftsFromIndexedDb") =>
        IF ~call[1].data.isArray THEN call[1].result = NULL
        ELSE /\ call[1].result # NULL
             /\ C30_Exactly(call[1].result[1], call[1].data.items,
                            {i \in 1..Len(call[1].data.items) :
                                C30_WellFormed(call[1].data.items[i])})
\* a malformed entry between two well-formed ones was dropped
C30_MalformedDropped ==
    /\ call # NULL
    /\ call[1].fn = "loadShiftsFromIndexedDb"
    /\ call[1].data.isArray
    /\ Len(call[1].data.items) = 3
    /\ call[1].data.items[2].types.start = "string"
    /\ call[1].result = Some(<<StoredShift, initialShifts[1]>>)


----------------------------------------------------------------------------
\* Language

\* a submit of a draft that passes validation
C31_SaveStep ==
    /\ handleSaveShift
    /\ ValidationError(modalDraft[1]) = NULL

\* the collection the submit of `draft` sets when `language` is selected
C31_SavedIn(language, draft, prev) ==
    SavedWith(draft, prev,
              IF trim(draft.title) # << >> THEN trim(draft.title)
              ELSE translations(language).defaultShiftTitle,
              snapToStep(parseTime(draft.startTime), SNAP_MINUTES),
              snapToStep(parseTime(draft.endTime), SNAP_MINUTES))

\* the titles of the collection the component starts with, the texts the
\* user types into the title field, and the titles of the translation table
C31_InitialTitles == {initialShifts[i].title : i \in 1..Len(initialShifts)}
C31_TableTitles ==
    UNION {{translations(language).newShiftTitle,
            translations(language).defaultShiftTitle} : language \in LanguageIds}
C31_WithoutTitles(collection) ==
    [i \in 1..Len(collection) |-> [collection[i] EXCEPT !.title = << >>]]

----------------------------------------------------------------------------
\* Ids

C32_Ids(collection) == {collection[i].id : i \in 1..Len(collection)}

\* C32: the ids of the collection are pairwise distinct at all times; a
\* create gives the appended shift an id no shift of the collection has; a
\* delete takes the id of its draft out; and no other step than these (and
\* the load, which replaces the collection) changes the set of ids.
C32_IdsUnique ==
    /\ [](\A i, j \in 1..Len(shifts) : shifts[i].id = shifts[j].id => i = j)
    /\ [][(loadState' = loadState /\ C32_Ids(shifts') # C32_Ids(shifts)) =>
            \/ /\ handleSaveShift
               /\ modalDraft[1].mode = "create"
               /\ Len(shifts') = Len(shifts) + 1
               /\ shifts'[Len(shifts')].id \notin C32_Ids(shifts)
               /\ C32_Ids(shifts') = C32_Ids(shifts) \cup {shifts'[Len(shifts')].id}
            \/ /\ handleDeleteShift
               /\ C32_Ids(shifts') = C32_Ids(shifts) \ {modalDraft[1].shiftId[1]}]_vars

\* C32 case: a shift was created next to the three initial ones and its
\* save is in flight
C32_CreatedNextToInitial ==
    /\ Len(shifts) = 4
    /\ C32_Ids(shifts) = {1, 2, 3, 4}
    /\ inflight # << >>


----------------------------------------------------------------------------
\* Scroll requests

\* C33: a scroll of the grid viewport is requested only in the step of a
\* date-picker change or of a switch into week or month mode, and the step
\* that requests it leaves no target recorded; a viewport resize or a
\* desktop/mobile transition requests none.
C33_ScrollOnlyOnSelection ==
    [][scrollCalls' # scrollCalls =>
          /\ \/ \E value \in PickerInputs : onDatepickerChange(value)
             \/ \E mode \in {"week", "month"} : handleViewModeChange(mode)
          /\ datepickerTargetDateKeyRef' = NULL]_vars


----------------------------------------------------------------------------
\* Resize: frame and path

\* C34: a resize pointer-move leaves the collection as long as it was; the
\* shift of the gesture keeps its id, employeeId, dateKey and title, and its
\* end (edge left) or its start (edge right) is what it was right before
\* the move; every other shift is unchanged - whatever happened to the
\* shift since the pointer went down.
C34_ResizeFrame ==
    (call # NULL /\ call[1].fn = "onPointerMove") =>
        /\ Len(call[1].result) = Len(call[1].before)
        /\ \A i \in 1..Len(call[1].before) :
              IF call[1].before[i].id # call[1].rs.shiftId
              THEN call[1].result[i] = call[1].before[i]
              ELSE /\ call[1].result[i].id = call[1].before[i].id
                   /\ call[1].result[i].employeeId = call[1].before[i].employeeId
                   /\ call[1].result[i].dateKey = call[1].before[i].dateKey
                   /\ call[1].result[i].title = call[1].before[i].title
                   /\ call[1].rs.edge = "left" =>
                          call[1].result[i].end = call[1].before[i].end
                   /\ call[1].rs.edge = "right" =>
                          call[1].result[i].start = call[1].before[i].start


----------------------------------------------------------------------------
\* Load against mutations

\* C35: when the load settles on a mounted component whose collection was
\* changed while the load was pending, the collection stays as the changes
\* left it, whether the load brings stored data, nothing, or a failure.
C35_MutationSurvivesLoad ==
    [][(mounted /\ loadState = "pending" /\ loadState' # "pending"
            /\ shifts # initialShifts) =>
          shifts' = shifts]_vars


----------------------------------------------------------------------------
\* Edit draft and its shift

\* C36: while an edit draft is open on a mounted component the collection
\* holds exactly one shift with the id of the draft, so that a save of the
\* draft updates one shift and a delete removes one.
C36_EditDraftHasShift ==
    (mounted /\ modalDraft # NULL /\ modalDraft[1].mode = "edit") =>
        Cardinality({i \in 1..Len(shifts) : Some(shifts[i].id) = modalDraft[1].shiftId}) = 1


----------------------------------------------------------------------------
\* Edit without a change

\* C37: for every shift of the data model (end = 1440 included), the submit
\* of the edit draft opened on it and left as it is passes validation: no
\* message is set and the form closes, and the shift keeps its employeeId,
\* dateKey, start and end.
C37_EditUnchanged ==
    [][(handleSaveShift /\ modalDraft[1].mode = "edit") =>
          /\ error' = NULL
          /\ modalDraft' = NULL
          /\ Len(shifts') = Len(shifts)
          /\ \A i \in 1..Len(shifts) :
                /\ shifts'[i].employeeId = shifts[i].employeeId
                /\ shifts'[i].dateKey = shifts[i].dateKey
                /\ shifts'[i].start = shifts[i].start
                /\ shifts'[i].end = shifts[i].end]_vars


\* C38: after the pointer-moves of one gesture the resized shift has the
\* start and end that the values captured at the pointer-down (originX,
\* originStart, originEnd, pixelsPerHour, edge) and the last pointer
\* position give, whatever the positions in between; with the pointer back
\* at originX they are originStart and originEnd.
C38_PathIndependent ==
    (call # NULL /\ call[1].fn = "onPointerMove") =>
        \A i \in 1..Len(call[1].result) :
            call[1].result[i].id = call[1].rs.shiftId =>
                /\ <<call[1].result[i].start, call[1].result[i].end>> =
                      C13_Expected(call[1].rs, call[1].clientXs[Len(call[1].clientXs)],
                          C13_Snap((call[1].clientXs[Len(call[1].clientXs)]
                                        - call[1].rs.originX) * 60
                                       * call[1].rs.pixelsPerHour[2],
                                   call[1].rs.pixelsPerHour[1]))
                /\ call[1].clientXs[Len(call[1].clientXs)] = call[1].rs.originX =>
                      /\ call[1].result[i].start = call[1].rs.originStart
                      /\ call[1].result[i].end = call[1].rs.originEnd



\* C39: whenever the scroll-to-date effect requests a scroll to the offset s
\* for a target column, the column is fully visible with the viewport at s:
\* targetColumnLeft >= s and targetColumnLeft + columnWidth <= s +
\* timelineViewportWidth, whether s is the centred offset, 0 or maxScrollLeft.
C39_TargetColumnLeft ==
    findIndex(visibleDates(call[1].layout.viewMode, call[1].layout.selectedDate),
              call[1].ref[1]) * call[1].layout.columnWidth
C39_TimelineViewportWidth ==
    IF call[1].clientWidth - call[1].layout.employeeColumnWidth
        >= call[1].layout.columnWidth
    THEN call[1].clientWidth - call[1].layout.employeeColumnWidth
    ELSE call[1].layout.columnWidth
\* the effect ran and called viewport.scrollTo
C39_Requested ==
    /\ call # NULL
    /\ call[1].fn = "scrollToDate"
    /\ call[1].result.scrollCalls = 1
C39_RequestShowsColumn ==
    C39_Requested =>
        /\ call[1].result.scrollTo # NULL
        /\ C39_TargetColumnLeft >= call[1].result.scrollTo[1]
        /\ C39_TargetColumnLeft + call[1].layout.columnWidth
            <= call[1].result.scrollTo[1] + C39_TimelineViewportWidth
\* the first day of March is the target in a month view scrolled five columns
\* to the right: the centred offset is negative and the request goes to 0
C39_ClampedToStart ==
    /\ C39_Requested
    /\ call[1].layout.viewMode = "month"
    /\ call[1].scrollLeft = 5 * DATE_CELL_WIDTH
    /\ C39_TargetColumnLeft = 0
    /\ call[1].result.scrollTo = Some(0)
\* the last day of February is the target in a month view at its start: the
\* centred offset is past the end and the request goes to maxScrollLeft
C39_ClampedToEnd ==
    /\ C39_Requested
    /\ call[1].layout.viewMode = "month"
    /\ call[1].scrollLeft = 0
    /\ call[1].layout.width = call[1].clientWidth
    /\ C39_TargetColumnLeft = 28 * call[1].layout.columnWidth
    /\ call[1].result.scrollTo
        = Some(call[1].layout.totalGridWidth - call[1].clientWidth)
\* a week view laid out for a viewport 1160 wide that is now 830 wide: the
\* request for Sunday is computed with the stale column width
C39_StaleLayout ==
    /\ C39_Requested
    /\ call[1].layout.viewMode = "week"
    /\ call[1].layout.width = 1160
    /\ call[1].clientWidth = 830



\* C40: in the desktop grid, for every view mode, scroll offset and viewport
\* size, every employee row and every timeline column whose pixel extent on
\* the canvas intersects the viewport rectangle is in the rendered row range
\* and column range computed from the viewport state.
C40_Rendered ==
    /\ call # NULL
    /\ call[1].fn = "renderGrid"
\* row `row` of the canvas, below the header, meets the viewport rectangle
C40_RowShows(row) ==
    /\ HEADER_HEIGHT + row * ROW_HEIGHT
        < call[1].virtualViewport.scrollTop + call[1].virtualViewport.height
    /\ HEADER_HEIGHT + (row + 1) * ROW_HEIGHT > call[1].virtualViewport.scrollTop
\* column `column` of the canvas, right of the employee column, meets the
\* viewport rectangle (positions times the denominator of the column width)
C40_ColumnShows(column) ==
    /\ employeeColumnWidth(call[1].virtualViewport.width) * call[1].columnSize[2]
         + column * call[1].columnSize[1]
        < (call[1].virtualViewport.scrollLeft + call[1].virtualViewport.width)
            * call[1].columnSize[2]
    /\ employeeColumnWidth(call[1].virtualViewport.width) * call[1].columnSize[2]
         + (column + 1) * call[1].columnSize[1]
        > call[1].virtualViewport.scrollLeft * call[1].columnSize[2]
====
